---- MODULE Spec2Model ----
(***************************************************************************)
(* Registration state machine and connection lifecycle of the Anjay LwM2M *)
(* client: Update scheduling (utils_core.c, servers/register part),       *)
(* registry lookups and binding-mode helpers (servers_utils.c).           *)
(***************************************************************************)
EXTENDS Integers, Sequences, FiniteSets, TLC

\* ------------------------------------------------------------------------
\* Bounds of the model
\* ------------------------------------------------------------------------
MaxNow == 2            \* the clock of the registration machine stops here
MaxJobs == 2           \* scheduler entries that can be allocated at once
MaxLifetime == 4       \* lifetimes 1..MaxLifetime are tried by the delay probe
MaxBindingLen == 3     \* binding strings up to this length are tried

\* ------------------------------------------------------------------------
\* Program constants
\* ------------------------------------------------------------------------
ANJAY_UPDATE_INTERVAL_MARGIN_FACTOR == 2
ANJAY_MIN_UPDATE_INTERVAL_S == 1
ANJAY_SSID_ANY == 0
ANJAY_SSID_BOOTSTRAP == 65535
NS_IN_S == 1000000000

\* ------------------------------------------------------------------------
\* avs_time_duration_t / avs_time_real_t as the code uses them: a pair
\* (seconds, nanoseconds), valid iff 0 <= nanoseconds < 10^9; the INVALID
\* value is { 0, -1 }.
\* ------------------------------------------------------------------------
Dur(s, ns) == [seconds |-> s, nanoseconds |-> ns]

AVS_TIME_DURATION_INVALID == Dur(0, -1)

AVS_TIME_REAL_INVALID == Dur(0, -1)

AVS_TIME_DURATION_ZERO == Dur(0, 0)

avs_time_duration_valid(d) == d.nanoseconds >= 0 /\ d.nanoseconds < NS_IN_S

\* carries the nanoseconds of a pair with -10^9 < ns < 2*10^9 into seconds
normalize(s, ns) ==
    IF ns < 0 THEN Dur(s - 1, ns + NS_IN_S)
    ELSE IF ns >= NS_IN_S THEN Dur(s + 1, ns - NS_IN_S)
    ELSE Dur(s, ns)

avs_time_duration_from_scalar(value) == Dur(value, 0)

avs_time_duration_less(a, b) ==
    /\ avs_time_duration_valid(a)
    /\ avs_time_duration_valid(b)
    /\ \/ a.seconds < b.seconds
       \/ a.seconds = b.seconds /\ a.nanoseconds < b.nanoseconds

avs_time_duration_add(a, b) ==
    IF avs_time_duration_valid(a) /\ avs_time_duration_valid(b)
    THEN normalize(a.seconds + b.seconds, a.nanoseconds + b.nanoseconds)
    ELSE AVS_TIME_DURATION_INVALID

avs_time_duration_diff(a, b) ==
    IF avs_time_duration_valid(a) /\ avs_time_duration_valid(b)
    THEN normalize(a.seconds - b.seconds, a.nanoseconds - b.nanoseconds)
    ELSE AVS_TIME_DURATION_INVALID

\* C division and remainder (truncation toward zero), divisor > 0
CDiv(a, b) == IF a >= 0 THEN a \div b ELSE -((-a) \div b)

CRem(a, b) == a - b * CDiv(a, b)

\* division of a whole-second or half-second duration by a small divisor;
\* the remainder of the seconds is carried into the nanoseconds
avs_time_duration_div(d, divisor) ==
    IF ~avs_time_duration_valid(d) \/ divisor = 0
    THEN AVS_TIME_DURATION_INVALID
    ELSE normalize(CDiv(d.seconds, divisor),
                   CRem(d.seconds, divisor) * (NS_IN_S \div divisor)
                       + d.nanoseconds \div divisor)

avs_time_real_add(t, d) == avs_time_duration_add(t, d)

avs_time_real_diff(a, b) == avs_time_duration_diff(a, b)

\* ------------------------------------------------------------------------
\* Registration expiry
\* ------------------------------------------------------------------------
anjay_register_time_remaining(expire_time, now_real) ==
    avs_time_real_diff(expire_time, now_real)

\* a comparison in the other direction: expired only when time is negative
anjay_server_registration_expired_reversed(expire_time, now_real) ==
    avs_time_duration_less(anjay_register_time_remaining(expire_time, now_real),
                           AVS_TIME_DURATION_ZERO)

anjay_server_registration_expired(expire_time, now_real) ==
    ~avs_time_duration_less(AVS_TIME_DURATION_ZERO,
                            anjay_register_time_remaining(expire_time, now_real))

\* an expiry one lifetime too late
get_registration_expire_time_twice(lifetime_s, now_real) ==
    avs_time_real_add(now_real, avs_time_duration_from_scalar(2 * lifetime_s))

get_registration_expire_time(lifetime_s, now_real) ==
    avs_time_real_add(now_real, avs_time_duration_from_scalar(lifetime_s))

\* ------------------------------------------------------------------------
\* Update delay
\* ------------------------------------------------------------------------
\* a margin that takes the larger of the two durations
get_server_update_interval_margin_max(lifetime_s, max_transmit_wait) ==
    LET half_lifetime ==
            avs_time_duration_div(avs_time_duration_from_scalar(lifetime_s),
                                  ANJAY_UPDATE_INTERVAL_MARGIN_FACTOR)
    IN  IF avs_time_duration_less(half_lifetime, max_transmit_wait)
        THEN max_transmit_wait
        ELSE half_lifetime

get_server_update_interval_margin(lifetime_s, max_transmit_wait) ==
    LET half_lifetime ==
            avs_time_duration_div(avs_time_duration_from_scalar(lifetime_s),
                                  ANJAY_UPDATE_INTERVAL_MARGIN_FACTOR)
    IN  IF avs_time_duration_less(half_lifetime, max_transmit_wait)
        THEN half_lifetime
        ELSE max_transmit_wait

\* a delay without the floor
schedule_next_update_delay_no_floor(expire_time, now_real, lifetime_s, mtw) ==
    avs_time_duration_diff(
        anjay_register_time_remaining(expire_time, now_real),
        get_server_update_interval_margin(lifetime_s, mtw))

\* a floor applied one second too early
schedule_next_update_delay_early_floor(expire_time, now_real, lifetime_s, mtw) ==
    LET remaining ==
            avs_time_duration_diff(
                anjay_register_time_remaining(expire_time, now_real),
                get_server_update_interval_margin(lifetime_s, mtw))
    IN  IF remaining.seconds <= ANJAY_MIN_UPDATE_INTERVAL_S
        THEN avs_time_duration_from_scalar(ANJAY_MIN_UPDATE_INTERVAL_S)
        ELSE remaining

\* the delay schedule_next_update passes to schedule_update
schedule_next_update_delay(expire_time, now_real, lifetime_s, max_transmit_wait) ==
    LET remaining0 == anjay_register_time_remaining(expire_time, now_real)
        interval_margin ==
            get_server_update_interval_margin(lifetime_s, max_transmit_wait)
        remaining == avs_time_duration_diff(remaining0, interval_margin)
    IN  IF remaining.seconds < ANJAY_MIN_UPDATE_INTERVAL_S
        THEN avs_time_duration_from_scalar(ANJAY_MIN_UPDATE_INTERVAL_S)
        ELSE remaining

\* ------------------------------------------------------------------------
\* Binding mode strings, as sequences of characters
\* ------------------------------------------------------------------------
ANJAY_CONNECTION_DISABLED == "DISABLED"

ANJAY_CONNECTION_ONLINE == "ONLINE"

ANJAY_CONNECTION_QUEUE == "QUEUE"

ConnectionModes ==
    {ANJAY_CONNECTION_DISABLED, ANJAY_CONNECTION_ONLINE, ANJAY_CONNECTION_QUEUE}

ANJAY_CONNECTION_UDP == "UDP"

ANJAY_CONNECTION_SMS == "SMS"

ANJAY_CONNECTION_UNSET == "UNSET"

ConnTypes == {ANJAY_CONNECTION_UDP, ANJAY_CONNECTION_SMS}

VALID_BINDINGS ==
    {<<"U">>, <<"U", "Q">>, <<"S">>, <<"S", "Q">>, <<"U", "S">>,
     <<"U", "Q", "S">>}

\* a check that accepts every string
anjay_binding_mode_valid_any(binding_mode) == TRUE

anjay_binding_mode_valid(binding_mode) == binding_mode \in VALID_BINDINGS

\* strchr(): the index of the first occurrence of the letter, 0 when absent
strchr(str, letter) ==
    IF \E i \in 1..Len(str) : str[i] = letter
    THEN CHOOSE i \in 1..Len(str) :
            /\ str[i] = letter
            /\ \A j \in 1..(i - 1) : str[j] # letter
    ELSE 0

\* the character at an index of a C string; the terminator past its end
CharAt(str, i) == IF i \in 1..Len(str) THEN str[i] ELSE "NUL"

\* a scan that does not look for the Q after the letter
anjay_get_connection_mode_no_queue(binding_mode, conn_type) ==
    IF conn_type \notin ConnTypes
    THEN ANJAY_CONNECTION_DISABLED
    ELSE IF strchr(binding_mode,
                   IF conn_type = ANJAY_CONNECTION_UDP THEN "U" ELSE "S") = 0
         THEN ANJAY_CONNECTION_DISABLED
         ELSE ANJAY_CONNECTION_ONLINE

anjay_get_connection_mode(binding_mode, conn_type) ==
    IF conn_type \notin ConnTypes
    THEN ANJAY_CONNECTION_DISABLED
    ELSE LET type_letter == IF conn_type = ANJAY_CONNECTION_UDP THEN "U" ELSE "S"
             type_letter_ptr == strchr(binding_mode, type_letter)
         IN  IF type_letter_ptr = 0
             THEN ANJAY_CONNECTION_DISABLED
             ELSE IF CharAt(binding_mode, type_letter_ptr + 1) = "Q"
                  THEN ANJAY_CONNECTION_QUEUE
                  ELSE ANJAY_CONNECTION_ONLINE

\* sizeof(anjay_binding_mode_t)
BINDING_MODE_SIZE == 8

\* append_str(): the buffer b (text so far, failure flag) with str appended;
\* snprintf fails when the text and its terminator do not fit the rest
append_str(b, str) ==
    IF b.failed
    THEN b
    ELSE IF Len(str) < BINDING_MODE_SIZE - Len(b.text)
         THEN [b EXCEPT !.text = b.text \o str]
         ELSE [b EXCEPT !.failed = TRUE]

UdpModeText(udp_mode) ==
    IF udp_mode = ANJAY_CONNECTION_ONLINE THEN <<"U">>
    ELSE IF udp_mode = ANJAY_CONNECTION_QUEUE THEN <<"U", "Q">>
    ELSE <<>>

SmsModeText(sms_mode) ==
    IF sms_mode = ANJAY_CONNECTION_ONLINE THEN <<"S">>
    ELSE IF sms_mode = ANJAY_CONNECTION_QUEUE THEN <<"S", "Q">>
    ELSE <<>>

\* the pair (return value, *out_binding_mode)
binding_mode_from_connection_modes(udp_mode, sms_mode) ==
    LET b0 == [text |-> <<>>, failed |-> FALSE]
        b1 == append_str(b0, UdpModeText(udp_mode))
        b2 == IF b1.failed THEN b1 ELSE append_str(b1, SmsModeText(sms_mode))
    IN  IF b2.failed
        THEN [rv |-> -1, out |-> b2.text]
        ELSE [rv |-> IF anjay_binding_mode_valid(b2.text) THEN 0 ELSE -1,
              out |-> b2.text]

\* ------------------------------------------------------------------------
\* The registration machine: registry, scheduler, clock
\* ------------------------------------------------------------------------
VARIABLES
    servers,    \* SSID -> Server Entry (anjay->servers->servers)
    jobs,       \* scheduler entry -> pending job or NoJob (anjay->sched)
    now,        \* seconds of the real clock
    offline,    \* anjay->offline
    last,       \* what the last operation was, returned and did
    probe       \* inputs and results of the pure-function probes

vars == <<servers, jobs, now, offline, last, probe>>

\* the entries of the registry, in list order
ServerList == <<1, ANJAY_SSID_BOOTSTRAP>>

SSIDs == {ServerList[i] : i \in 1..Len(ServerList)}

\* an SSID no entry of the registry carries
UNKNOWN_SSID == ServerList[1] + 1

NULL == 0

JobIds == 1..MaxJobs

NoJob == [ssid |-> ANJAY_SSID_ANY, at |-> AVS_TIME_REAL_INVALID, clb |-> "none"]

SocketStates == {"none", "offline", "online"}

NoConnection == [socket |-> "none", mode |-> ANJAY_CONNECTION_DISABLED]

\* the Binding resource the data model holds for each server
BindingOf(ssid) == IF ssid = 1 THEN <<"U", "S">> ELSE <<"U">>

\* the Lifetime values the data model may hold
ModelLifetimes == {3}

\* avs_coap_max_transmit_wait() of the configured transmission parameters,
\* in seconds
UdpMaxTransmitWaitS == 1

SmsMaxTransmitWaitS == 2

max_transmit_wait(conn_type) ==
    IF conn_type = ANJAY_CONNECTION_SMS
    THEN avs_time_duration_from_scalar(SmsMaxTransmitWaitS)
    ELSE avs_time_duration_from_scalar(UdpMaxTransmitWaitS)

InactiveServer ==
    [active |-> FALSE,
     primary_conn_type |-> ANJAY_CONNECTION_UNSET,
     conn |-> [t \in ConnTypes |-> NoConnection],
     expire_time |-> AVS_TIME_REAL_INVALID,
     lifetime_s |-> 0,
     next_action_handle |-> NULL]

NowReal == Dur(now, 0)

\* The handlers below are sequential code: each operator takes the program
\* state st = [servers, jobs, events, rv] and yields the state after it, its
\* return value in rv and the externally visible steps appended to events.
StateOf(srv, jbs) == [servers |-> srv, jobs |-> jbs, events |-> <<>>, rv |-> 0]

Ret(st, value) == [st EXCEPT !.rv = value]

Event(st, e) == [st EXCEPT !.events = Append(@, e)]

anjay_server_active(st, ssid) == ssid \in SSIDs /\ st.servers[ssid].active

\* _anjay_servers_foreach_active() with find_active_clb: the SSID of the
\* active entry found, NULL when there is none
anjay_servers_find_active(st, ssid) ==
    IF \E i \in 1..Len(ServerList) :
            st.servers[ServerList[i]].active /\ ServerList[i] = ssid
    THEN ssid
    ELSE NULL

\* _anjay_connection_get_online_socket() != NULL
anjay_connection_get_online_socket(st, ssid, conn_type) ==
    /\ conn_type \in ConnTypes
    /\ st.servers[ssid].conn[conn_type].socket = "online"

anjay_server_primary_connection_valid(st, ssid) ==
    /\ st.servers[ssid].primary_conn_type # ANJAY_CONNECTION_UNSET
    /\ anjay_connection_get_online_socket(st, ssid,
                                          st.servers[ssid].primary_conn_type)

ServerExpired(st, ssid) ==
    anjay_server_registration_expired(st.servers[ssid].expire_time, NowReal)

\* ---- scheduler -----------------------------------------------------------
\* _anjay_sched_del(): cancels the job the handle refers to and clears the
\* handle; a NULL handle is left alone
anjay_sched_del(st, ssid) ==
    LET h == st.servers[ssid].next_action_handle
    IN  IF h = NULL
        THEN st
        ELSE Event([st EXCEPT !.jobs[h] = NoJob,
                              !.servers[ssid].next_action_handle = NULL],
                   <<"cancel", ssid>>)

FreeJobIds(st) == {j \in JobIds : st.jobs[j] = NoJob}

\* a new scheduler entry due after delay, its handle stored in the server's
\* next_action_handle; fails when the entry cannot be allocated
sched_retryable(st, ssid, delay, clb, alloc_fails) ==
    IF alloc_fails \/ FreeJobIds(st) = {}
    THEN Ret(Event(st, <<"schedule_failed", ssid>>), -1)
    ELSE LET j == CHOOSE x \in FreeJobIds(st) : \A y \in FreeJobIds(st) : x <= y
         IN  Ret(Event([st EXCEPT
                           !.jobs[j] = [ssid |-> ssid,
                                        at |-> avs_time_real_add(NowReal, delay),
                                        clb |-> clb],
                           !.servers[ssid].next_action_handle = j],
                       <<"schedule", ssid, delay>>),
                 0)

anjay_servers_schedule_first_retryable(st, ssid, delay, clb, alloc_fails) ==
    sched_retryable(st, ssid, delay, clb, alloc_fails)

anjay_servers_schedule_next_retryable(st, ssid, backoff, clb, alloc_fails) ==
    sched_retryable(anjay_sched_del(st, ssid), ssid, backoff, clb, alloc_fails)

\* ---- Update scheduling ---------------------------------------------------
schedule_update(st, ssid, delay, alloc_fails) ==
    anjay_servers_schedule_first_retryable(st, ssid, delay,
                                           "send_update_sched_job", alloc_fails)

schedule_next_update(st, ssid, alloc_fails) ==
    schedule_update(st, ssid,
                    schedule_next_update_delay(
                        st.servers[ssid].expire_time, NowReal,
                        st.servers[ssid].lifetime_s,
                        max_transmit_wait(st.servers[ssid].primary_conn_type)),
                    alloc_fails)

\* a reschedule that asks for the next Update at once
anjay_server_reschedule_update_job_now(st, ssid, alloc_fails) ==
    LET r == schedule_update(anjay_sched_del(st, ssid), ssid,
                             AVS_TIME_DURATION_ZERO, alloc_fails)
    IN  IF r.rv # 0 THEN Ret(r, -1) ELSE Ret(r, 0)

anjay_server_reschedule_update_job(st, ssid, alloc_fails) ==
    LET r == schedule_next_update(anjay_sched_del(st, ssid), ssid, alloc_fails)
    IN  IF r.rv # 0 THEN Ret(r, -1) ELSE Ret(r, 0)

\* a reschedule that does not cancel the pending job first
reschedule_update_for_server_no_cancel(st, ssid, alloc_fails) ==
    LET r == schedule_update(st, ssid, AVS_TIME_DURATION_ZERO, alloc_fails)
    IN  IF r.rv # 0 THEN Ret(r, -1) ELSE Ret(r, 0)

reschedule_update_for_server(st, ssid, alloc_fails) ==
    LET r == schedule_update(anjay_sched_del(st, ssid), ssid,
                             AVS_TIME_DURATION_ZERO, alloc_fails)
    IN  IF r.rv # 0 THEN Ret(r, -1) ELSE Ret(r, 0)

\* the loop of reschedule_update_for_all_servers from list position i on;
\* failing is the set of servers whose job cannot be allocated
RECURSIVE reschedule_update_from(_, _, _, _)
reschedule_update_from(st, i, result, failing) ==
    IF i > Len(ServerList)
    THEN Ret(st, result)
    ELSE LET it == ServerList[i]
         IN  IF st.servers[it].active
             THEN LET r == reschedule_update_for_server(st, it, it \in failing)
                  IN  reschedule_update_from(
                          r, i + 1, IF result = 0 THEN r.rv ELSE result, failing)
             ELSE reschedule_update_from(st, i + 1, result, failing)

\* a loop that gives up at the first server whose job cannot be scheduled
RECURSIVE reschedule_update_from_break(_, _, _, _)
reschedule_update_from_break(st, i, result, failing) ==
    IF i > Len(ServerList) \/ result # 0
    THEN Ret(st, result)
    ELSE LET it == ServerList[i]
         IN  IF st.servers[it].active
             THEN LET r == reschedule_update_for_server(st, it, it \in failing)
                  IN  reschedule_update_from_break(r, i + 1, r.rv, failing)
             ELSE reschedule_update_from_break(st, i + 1, result, failing)

reschedule_update_for_all_servers_break(st, failing) ==
    reschedule_update_from_break(st, 1, 0, failing)

reschedule_update_for_all_servers(st, failing) ==
    reschedule_update_from(st, 1, 0, failing)

\* a variant that does not look at the offline flag
anjay_schedule_registration_update_offline(st, ssid, is_offline, failing) ==
    IF ssid = ANJAY_SSID_ANY
    THEN reschedule_update_for_all_servers(st, failing)
    ELSE LET server == anjay_servers_find_active(st, ssid)
         IN  IF server = NULL
             THEN Ret(st, -1)
             ELSE reschedule_update_for_server(st, server, server \in failing)

anjay_schedule_registration_update(st, ssid, is_offline, failing) ==
    IF is_offline
    THEN Ret(st, -1)
    ELSE IF ssid = ANJAY_SSID_ANY
         THEN reschedule_update_for_all_servers(st, failing)
         ELSE LET server == anjay_servers_find_active(st, ssid)
              IN  IF server = NULL
                  THEN Ret(st, -1)
                  ELSE reschedule_update_for_server(st, server,
                                                    server \in failing)

\* ---- connections ---------------------------------------------------------
\* _anjay_connection_suspend(): closes the socket of one transport, or of
\* every transport when conn_type is UNSET; a closed socket is retained
anjay_connection_suspend(st, ssid, conn_type) ==
    Event([st EXCEPT !.servers[ssid].conn =
              [t \in ConnTypes |->
                  IF /\ conn_type \in {t, ANJAY_CONNECTION_UNSET}
                     /\ @[t].socket = "online"
                  THEN [@[t] EXCEPT !.socket = "offline"]
                  ELSE @[t]]],
          <<"suspend", ssid, conn_type>>)

\* _anjay_active_server_refresh(): reads the Binding, drops the sockets of
\* disabled transports and brings the others online; up is the set of
\* transports whose connect succeeds, resumed tells whether a reconnected
\* primary socket resumed its session (if not, the primary is unset).
\* Returns 0 iff every enabled transport is online afterwards.
anjay_active_server_refresh(st, ssid, is_offline, up, resumed) ==
    LET old == st.servers[ssid]
        modeOf(t) == anjay_get_connection_mode(BindingOf(ssid), t)
        sockOf(t) ==
            IF modeOf(t) = ANJAY_CONNECTION_DISABLED THEN "none"
            ELSE IF old.conn[t].socket = "online" THEN "online"
            ELSE IF t \in up /\ ~is_offline THEN "online"
            ELSE old.conn[t].socket
        conn == [t \in ConnTypes |-> [socket |-> sockOf(t), mode |-> modeOf(t)]]
        reconnected(t) == old.conn[t].socket # "online" /\ sockOf(t) = "online"
        primary ==
            IF /\ old.primary_conn_type \in ConnTypes
               /\ \/ sockOf(old.primary_conn_type) = "none"
                  \/ reconnected(old.primary_conn_type) /\ ~resumed
            THEN ANJAY_CONNECTION_UNSET
            ELSE old.primary_conn_type
        ok == \A t \in ConnTypes :
                modeOf(t) # ANJAY_CONNECTION_DISABLED => sockOf(t) = "online"
    IN  Ret(Event([st EXCEPT !.servers[ssid].conn = conn,
                             !.servers[ssid].primary_conn_type = primary],
                  <<"refresh", ssid, ok>>),
            IF ok THEN 0 ELSE 1)

\* _anjay_server_setup_primary_connection(): the first transport with an
\* online socket becomes the primary one; -1 when there is none
anjay_server_setup_primary_connection(st, ssid) ==
    LET online(t) == st.servers[ssid].conn[t].socket = "online"
    IN  IF online(ANJAY_CONNECTION_UDP)
        THEN Ret([st EXCEPT !.servers[ssid].primary_conn_type =
                                ANJAY_CONNECTION_UDP], 0)
        ELSE IF online(ANJAY_CONNECTION_SMS)
        THEN Ret([st EXCEPT !.servers[ssid].primary_conn_type =
                                ANJAY_CONNECTION_SMS], 0)
        ELSE Ret([st EXCEPT !.servers[ssid].primary_conn_type =
                                ANJAY_CONNECTION_UNSET], -1)

\* ---- registration driver -------------------------------------------------
ANJAY_UPDATE_SUCCESS == 0

ANJAY_UPDATE_NEEDS_REGISTRATION == 1

ANJAY_UPDATE_FAILED == 2

ANJAY_REGISTRATION_SUCCESS == 0

ANJAY_REGISTRATION_FORBIDDEN == 1

ANJAY_REGISTRATION_FAILED == 2

\* outcomes of the Update and Register exchanges (_anjay_update_registration,
\* _anjay_register)
UpdateOutcomes == {"ok", "rejected", "network", "other"}

RegisterOutcomes == {"ok", "forbidden", "failed"}

\* what one run of a handler draws from its environment
NoInput ==
    [update |-> "ok", register |-> "ok", needs_update |-> FALSE,
     lifetime |-> 2, ctx_init_fails |-> FALSE, alloc_fails |-> FALSE,
     up |-> {}, resumed |-> TRUE, backoff |-> 1, bind_fails |-> FALSE,
     dereg_fails |-> FALSE, flush_fails |-> FALSE, hook_fails |-> FALSE]

\* move_params: -2 stands for a NULL move_params, other values are the
\* lifetime_s of the parameters moved in
anjay_server_update_registration_info(st, ssid, move_params) ==
    LET lifetime == IF move_params = -2
                    THEN st.servers[ssid].lifetime_s
                    ELSE move_params
    IN  [st EXCEPT !.servers[ssid].lifetime_s = lifetime,
                   !.servers[ssid].expire_time =
                       get_registration_expire_time(lifetime, NowReal)]

\* an Update whose rejection leaves expire_time as it was
registration_update_with_ctx_keep_expiry(st, ssid, inp) ==
    LET sent == Event(st, <<"Update", ssid, inp.update>>)
    IN  CASE inp.update = "ok" ->
                Ret(anjay_server_update_registration_info(sent, ssid,
                                                          inp.lifetime),
                    ANJAY_UPDATE_SUCCESS)
          [] inp.update = "rejected" ->
                Ret(sent, ANJAY_UPDATE_NEEDS_REGISTRATION)
          [] inp.update = "network" ->
                Ret(anjay_connection_suspend(
                        sent, ssid, st.servers[ssid].primary_conn_type),
                    ANJAY_UPDATE_FAILED)
          [] OTHER -> Ret(sent, ANJAY_UPDATE_FAILED)

\* an Update whose network error suspends every transport of the server
registration_update_with_ctx_suspend_all(st, ssid, inp) ==
    LET sent == Event(st, <<"Update", ssid, inp.update>>)
    IN  CASE inp.update = "ok" ->
                Ret(anjay_server_update_registration_info(sent, ssid,
                                                          inp.lifetime),
                    ANJAY_UPDATE_SUCCESS)
          [] inp.update = "rejected" ->
                Ret([sent EXCEPT !.servers[ssid].expire_time =
                                     AVS_TIME_REAL_INVALID],
                    ANJAY_UPDATE_NEEDS_REGISTRATION)
          [] inp.update = "network" ->
                Ret(anjay_connection_suspend(sent, ssid,
                                             ANJAY_CONNECTION_UNSET),
                    ANJAY_UPDATE_FAILED)
          [] OTHER -> Ret(sent, ANJAY_UPDATE_FAILED)

registration_update_with_ctx(st, ssid, inp) ==
    LET sent == Event(st, <<"Update", ssid, inp.update>>)
    IN  CASE inp.update = "ok" ->
                Ret(anjay_server_update_registration_info(sent, ssid,
                                                          inp.lifetime),
                    ANJAY_UPDATE_SUCCESS)
          [] inp.update = "rejected" ->
                Ret([sent EXCEPT !.servers[ssid].expire_time =
                                     AVS_TIME_REAL_INVALID],
                    ANJAY_UPDATE_NEEDS_REGISTRATION)
          [] inp.update = "network" ->
                Ret(anjay_connection_suspend(
                        sent, ssid, st.servers[ssid].primary_conn_type),
                    ANJAY_UPDATE_FAILED)
          [] OTHER -> Ret(sent, ANJAY_UPDATE_FAILED)

\* _anjay_needs_registration_update(): whether the parameters the context
\* read from the data model differ from those last sent
anjay_needs_registration_update(inp) == inp.needs_update

\* every Register failure reported alike
register_failure_generic(retval) == ANJAY_REGISTRATION_FAILED

\* the result of ensure_valid_registration_with_ctx for a failed _anjay_register
register_failure(retval) ==
    IF retval = "forbidden"
    THEN ANJAY_REGISTRATION_FORBIDDEN
    ELSE ANJAY_REGISTRATION_FAILED

\* _anjay_bootstrap_notify_regular_connection_available(): the hook that
\* tells the bootstrap logic that a regular server is reachable; its failure
\* is noted as an event of its own
anjay_bootstrap_notify_regular_connection_available(st, ssid, inp) ==
    LET called == Event(st, <<"bootstrap_notify", ssid>>)
    IN  IF inp.hook_fails
        THEN Ret(Event(called, <<"bootstrap_notify_failed", ssid>>), -1)
        ELSE Ret(called, 0)

\* an attempt that sends a Register after every Update that did not succeed
\* and whatever the setup of the primary connection returned
ensure_valid_registration_register_always(st, ssid, inp) ==
    LET u == IF ~anjay_server_primary_connection_valid(st, ssid)
             THEN Ret([st EXCEPT !.servers[ssid].expire_time =
                                     AVS_TIME_REAL_INVALID],
                      ANJAY_UPDATE_NEEDS_REGISTRATION)
             ELSE IF ServerExpired(st, ssid)
             THEN Ret(st, ANJAY_UPDATE_NEEDS_REGISTRATION)
             ELSE IF ~anjay_needs_registration_update(inp)
             THEN Ret(st, ANJAY_UPDATE_SUCCESS)
             ELSE registration_update_with_ctx(st, ssid, inp)
    IN  IF u.rv = ANJAY_UPDATE_SUCCESS
        THEN Ret(u, ANJAY_REGISTRATION_SUCCESS)
        ELSE LET p == anjay_server_setup_primary_connection(u, ssid)
                 sent == Event(p, <<"Register", ssid, inp.register>>)
             IN  IF inp.register # "ok"
                 THEN Ret(sent, register_failure(inp.register))
                 ELSE Ret(anjay_bootstrap_notify_regular_connection_available(
                              anjay_server_update_registration_info(
                                  sent, ssid, inp.lifetime),
                              ssid, inp),
                          ANJAY_REGISTRATION_SUCCESS)

ensure_valid_registration_with_ctx(st, ssid, inp) ==
    LET u == IF ~anjay_server_primary_connection_valid(st, ssid)
             THEN Ret([st EXCEPT !.servers[ssid].expire_time =
                                     AVS_TIME_REAL_INVALID],
                      ANJAY_UPDATE_NEEDS_REGISTRATION)
             ELSE IF ServerExpired(st, ssid)
             THEN Ret(st, ANJAY_UPDATE_NEEDS_REGISTRATION)
             ELSE IF ~anjay_needs_registration_update(inp)
             THEN Ret(st, ANJAY_UPDATE_SUCCESS)
             ELSE registration_update_with_ctx(st, ssid, inp)
    IN  CASE u.rv = ANJAY_UPDATE_SUCCESS -> Ret(u, ANJAY_REGISTRATION_SUCCESS)
          [] u.rv = ANJAY_UPDATE_NEEDS_REGISTRATION ->
                LET valid == anjay_server_primary_connection_valid(u, ssid)
                    p == IF valid THEN Ret(u, 0)
                         ELSE anjay_server_setup_primary_connection(u, ssid)
                IN  IF ~valid /\ p.rv # 0
                    THEN Ret(p, ANJAY_REGISTRATION_FAILED)
                    ELSE LET sent == Event(p, <<"Register", ssid, inp.register>>)
                         IN  IF inp.register # "ok"
                             THEN Ret(sent, register_failure(inp.register))
                             ELSE Ret(anjay_bootstrap_notify_regular_connection_available(
                                          anjay_server_update_registration_info(
                                              sent, ssid, inp.lifetime),
                                          ssid, inp),
                                      ANJAY_REGISTRATION_SUCCESS)
          [] OTHER -> Ret(u, ANJAY_REGISTRATION_FAILED)

\* an Update attempt that is skipped when the data model is unchanged
registration_update_if_changed_with_ctx(st, ssid, inp) ==
    IF ~anjay_server_primary_connection_valid(st, ssid)
    THEN Ret([st EXCEPT !.servers[ssid].expire_time = AVS_TIME_REAL_INVALID],
             ANJAY_UPDATE_NEEDS_REGISTRATION)
    ELSE IF ServerExpired(st, ssid)
    THEN Ret(st, ANJAY_UPDATE_NEEDS_REGISTRATION)
    ELSE IF ~anjay_needs_registration_update(inp)
    THEN Ret(st, ANJAY_UPDATE_SUCCESS)
    ELSE registration_update_with_ctx(st, ssid, inp)

\* an Update attempt that does not look at the expiry of the registration
registration_update_if_connected_with_ctx(st, ssid, inp) ==
    IF ~anjay_server_primary_connection_valid(st, ssid)
    THEN Ret([st EXCEPT !.servers[ssid].expire_time = AVS_TIME_REAL_INVALID],
             ANJAY_UPDATE_NEEDS_REGISTRATION)
    ELSE registration_update_with_ctx(st, ssid, inp)

registration_update_if_possible_with_ctx(st, ssid, inp) ==
    IF ~anjay_server_primary_connection_valid(st, ssid)
    THEN Ret([st EXCEPT !.servers[ssid].expire_time = AVS_TIME_REAL_INVALID],
             ANJAY_UPDATE_NEEDS_REGISTRATION)
    ELSE IF ServerExpired(st, ssid)
    THEN Ret(st, ANJAY_UPDATE_NEEDS_REGISTRATION)
    ELSE registration_update_with_ctx(st, ssid, inp)

\* _anjay_registration_update_ctx_init(): the context reads the registration
\* parameters from the data model, and with them whether they changed since
\* the last Register or Update
anjay_registration_update_ctx_init(st, ssid, inp) ==
    Event(st, <<"ctx_init", ssid, inp.needs_update>>)

\* _anjay_observe_sched_flush(): sends the notifications queued for the
\* connection; its failure is noted as an event of its own
anjay_observe_sched_flush(st, ssid, conn_type, inp) ==
    LET called == Event(st, <<"flush", ssid, conn_type>>)
    IN  IF inp.flush_fails
        THEN Ret(Event(called, <<"flush_failed", ssid>>), -1)
        ELSE Ret(called, 0)

\* a driver that reports a failed flush as a failure of the attempt
perform_registration_action_flush_fatal(st, a, ssid, inp) ==
    IF inp.ctx_init_fails
    THEN Ret(Event(st, <<"ctx_init_failed", ssid>>), -1)
    ELSE LET retval == a.rv
             flushed ==
                 IF retval = 0
                 THEN anjay_observe_sched_flush(
                          a, ssid, a.servers[ssid].primary_conn_type, inp)
                 ELSE a
             r == IF retval = 0 /\ flushed.rv = 0
                  THEN anjay_server_reschedule_update_job(flushed, ssid,
                                                          inp.alloc_fails)
                  ELSE flushed
         IN  IF retval = 0 /\ r.rv # 0 THEN Ret(r, -1) ELSE Ret(r, retval)

\* a driver that flushes the notifications whatever the action returned
perform_registration_action_flush_always(st, a, ssid, inp) ==
    IF inp.ctx_init_fails
    THEN Ret(Event(st, <<"ctx_init_failed", ssid>>), -1)
    ELSE LET retval == a.rv
             flushed == Event(a, <<"flush", ssid,
                                   a.servers[ssid].primary_conn_type>>)
             r == IF retval = 0
                  THEN anjay_server_reschedule_update_job(flushed, ssid,
                                                          inp.alloc_fails)
                  ELSE flushed
         IN  IF retval = 0 /\ r.rv # 0 THEN Ret(r, -1) ELSE Ret(r, retval)

\* perform_registration_action() on state st; a is the state after the
\* action has run with the initialized context
perform_registration_action(st, a, ssid, inp) ==
    IF inp.ctx_init_fails
    THEN Ret(Event(st, <<"ctx_init_failed", ssid>>), -1)
    ELSE LET retval == a.rv
             flushed ==
                 IF retval = 0
                 THEN anjay_observe_sched_flush(
                          a, ssid, a.servers[ssid].primary_conn_type, inp)
                 ELSE a
             r == IF retval = 0
                  THEN anjay_server_reschedule_update_job(flushed, ssid,
                                                          inp.alloc_fails)
                  ELSE flushed
         IN  IF retval = 0 /\ r.rv # 0 THEN Ret(r, -1) ELSE Ret(r, retval)

anjay_server_registration_update(st, ssid, inp) ==
    LET r == perform_registration_action(
                 st,
                 registration_update_if_possible_with_ctx(
                     anjay_registration_update_ctx_init(st, ssid, inp),
                     ssid, inp),
                 ssid, inp)
    IN  IF r.rv >= 0 THEN r ELSE Ret(r, ANJAY_UPDATE_FAILED)

anjay_server_ensure_valid_registration(st, ssid, inp) ==
    LET r == perform_registration_action(
                 st,
                 ensure_valid_registration_with_ctx(
                     anjay_registration_update_ctx_init(st, ssid, inp),
                     ssid, inp),
                 ssid, inp)
    IN  IF r.rv >= 0 THEN r ELSE Ret(r, ANJAY_REGISTRATION_FAILED)

\* ---- deactivation --------------------------------------------------------
\* _anjay_bind_server_stream(): fails when the connection has no online
\* socket, or when the stream cannot be set up on it
anjay_bind_server_stream(st, ssid, conn_type, inp) ==
    IF \/ ~anjay_connection_get_online_socket(st, ssid, conn_type)
       \/ inp.bind_fails
    THEN Ret(Event(st, <<"bind_stream", ssid, conn_type, FALSE>>), -1)
    ELSE Ret(Event(st, <<"bind_stream", ssid, conn_type, TRUE>>), 0)

\* a De-register sent without looking at the transport or the stream
anjay_server_deregister_always(st, ssid, inp) ==
    LET conn_type == st.servers[ssid].primary_conn_type
        bound == Event(st, <<"bind_stream", ssid, conn_type, TRUE>>)
        result == IF inp.dereg_fails THEN -1 ELSE 0
        sent == Event(bound, <<"Deregister", ssid, inp.dereg_fails>>)
        released == Event(sent, <<"release_stream", ssid>>)
    IN  Ret(Event(released, <<"deregister_result", ssid, result>>), result)

\* a De-register that returns early, with the stream still held, when the
\* exchange fails
anjay_server_deregister_leak_on_failure(st, ssid, inp) ==
    LET conn_type == st.servers[ssid].primary_conn_type
        bound == IF conn_type = ANJAY_CONNECTION_UNSET
                 THEN Ret(st, -1)
                 ELSE anjay_bind_server_stream(st, ssid, conn_type, inp)
    IN  IF conn_type = ANJAY_CONNECTION_UNSET \/ bound.rv # 0
        THEN Ret(Event(bound, <<"deregister_result", ssid, 0>>), 0)
        ELSE LET sent == Event(bound,
                               <<"Deregister", ssid, inp.dereg_fails>>)
             IN  IF inp.dereg_fails
                 THEN Ret(Event(sent, <<"deregister_result", ssid, -1>>), -1)
                 ELSE Ret(Event(Event(sent, <<"release_stream", ssid>>),
                                <<"deregister_result", ssid, 0>>), 0)

\* the value returned is also noted as the last event of the call
anjay_server_deregister(st, ssid, inp) ==
    LET conn_type == st.servers[ssid].primary_conn_type
        bound == IF conn_type = ANJAY_CONNECTION_UNSET
                 THEN Ret(st, -1)
                 ELSE anjay_bind_server_stream(st, ssid, conn_type, inp)
    IN  IF conn_type = ANJAY_CONNECTION_UNSET \/ bound.rv # 0
        THEN Ret(Event(bound, <<"deregister_result", ssid, 0>>), 0)
        ELSE LET result == IF inp.dereg_fails THEN -1 ELSE 0
                 sent == Event(bound,
                               <<"Deregister", ssid, inp.dereg_fails>>)
                 released == Event(sent, <<"release_stream", ssid>>)
             IN  Ret(Event(released, <<"deregister_result", ssid, result>>),
                     result)

\* _anjay_server_deactivate(): De-registers unless the registration is
\* expired (never for the Bootstrap Server), cancels the pending job, releases
\* the sockets and makes the entry Inactive; a no-op for an Inactive entry
anjay_server_deactivate(st, ssid, inp) ==
    IF anjay_servers_find_active(st, ssid) = NULL
    THEN Ret(st, 0)
    ELSE LET req == Event(st, <<"deactivate", ssid, ServerExpired(st, ssid)>>)
             d == IF ssid # ANJAY_SSID_BOOTSTRAP /\ ~ServerExpired(st, ssid)
                  THEN anjay_server_deregister(req, ssid, inp)
                  ELSE req
             c == anjay_sched_del(d, ssid)
         IN  Ret([c EXCEPT !.servers[ssid] = InactiveServer], 0)

\* ---- forced re-registration ----------------------------------------------
\* the value expire_time has when the deactivation is asked for is noted as
\* an event
expire_time_noted(st, ssid) ==
    Event(st, <<"expire_time", ssid, st.servers[ssid].expire_time>>)

\* a forced re-registration that leaves expire_time as it is
anjay_schedule_reregister_keep_expiry(st, ssid, inp) ==
    anjay_server_deactivate(expire_time_noted(st, ssid), ssid, inp)

\* _anjay_schedule_reregister(), called for an Active server
anjay_schedule_reregister(st, ssid, inp) ==
    anjay_server_deactivate(
        expire_time_noted(
            [st EXCEPT !.servers[ssid].expire_time = AVS_TIME_REAL_INVALID],
            ssid),
        ssid, inp)

\* anjay_disable_server_with_timeout() with zero timeout: asks the scheduler
\* to deactivate the server; the deactivation itself runs later, as a job
anjay_disable_server_with_timeout(st, ssid, alloc_fails) ==
    IF alloc_fails
    THEN Ret(Event(st, <<"disable_failed", ssid>>), -1)
    ELSE Ret(Event(st, <<"disable_server", ssid, ServerExpired(st, ssid)>>), 0)

\* a socket update that asks for the deactivation without marking the
\* registration as expired
anjay_schedule_socket_update_keep_expiry(st, ssid, alloc_fails) ==
    IF ssid \notin SSIDs \/ anjay_servers_find_active(st, ssid) = NULL
    THEN Ret(st, 0)
    ELSE anjay_disable_server_with_timeout(expire_time_noted(st, ssid), ssid,
                                           alloc_fails)

\* _anjay_schedule_socket_update(); ssid is the server the Security instance
\* belongs to, or a value outside SSIDs when it belongs to none
anjay_schedule_socket_update(st, ssid, alloc_fails) ==
    IF ssid \notin SSIDs \/ anjay_servers_find_active(st, ssid) = NULL
    THEN Ret(st, 0)
    ELSE anjay_disable_server_with_timeout(
             expire_time_noted(
                 anjay_server_update_registration_info(st, ssid, -1), ssid),
             ssid, alloc_fails)

\* ---- the Update job ------------------------------------------------------
\* a job that gives up instead of scheduling a retry
send_update_sched_job_abandon(st, ssid, inp) == st

send_update_sched_job_retry(st, ssid, inp) ==
    anjay_servers_schedule_next_retryable(
        st, ssid, avs_time_duration_from_scalar(inp.backoff),
        "send_update_sched_job", inp.alloc_fails)

\* a job that leaves the server as it is on a definitive outcome
send_update_sched_job_keep(st, ssid, inp) == st

\* a job that goes on retrying after the registration has expired
send_update_sched_job_retry_on_expiry(st, ssid, inp) ==
    send_update_sched_job_retry(st, ssid, inp)

send_update_sched_job_expire(st, ssid, inp) ==
    anjay_server_deactivate(
        [st EXCEPT !.servers[ssid].expire_time = AVS_TIME_REAL_INVALID],
        ssid, inp)

\* a job that retries after every refresh failure, expired or not
send_update_sched_job_retry_refresh(st, ssid, is_offline, inp) ==
    IF anjay_servers_find_active(st, ssid) = NULL
    THEN st
    ELSE LET refreshed == anjay_active_server_refresh(st, ssid, is_offline,
                                                      inp.up, inp.resumed)
         IN  IF refreshed.rv # 0
             THEN send_update_sched_job_retry(refreshed, ssid, inp)
             ELSE IF ssid = ANJAY_SSID_BOOTSTRAP
             THEN refreshed
             ELSE LET u == anjay_server_registration_update(refreshed, ssid, inp)
                  IN  CASE u.rv = ANJAY_UPDATE_SUCCESS -> u
                        [] u.rv = ANJAY_UPDATE_NEEDS_REGISTRATION ->
                              send_update_sched_job_expire(u, ssid, inp)
                        [] OTHER -> send_update_sched_job_retry(u, ssid, inp)

\* a job that answers NeedsRegistration with a retry
send_update_sched_job_retry_needs_registration(st, ssid, is_offline, inp) ==
    IF anjay_servers_find_active(st, ssid) = NULL
    THEN st
    ELSE LET refreshed == anjay_active_server_refresh(st, ssid, is_offline,
                                                      inp.up, inp.resumed)
         IN  IF refreshed.rv # 0
             THEN IF ~ServerExpired(refreshed, ssid)
                  THEN send_update_sched_job_retry(refreshed, ssid, inp)
                  ELSE send_update_sched_job_expire(refreshed, ssid, inp)
             ELSE IF ssid = ANJAY_SSID_BOOTSTRAP
             THEN refreshed
             ELSE LET u == anjay_server_registration_update(refreshed, ssid, inp)
                  IN  CASE u.rv = ANJAY_UPDATE_SUCCESS -> u
                        [] OTHER -> send_update_sched_job_retry(u, ssid, inp)

\* a job that refreshes and updates whatever entry carries its SSID, Active
\* or not
send_update_sched_job_unguarded(st, ssid, is_offline, inp) ==
    IF ssid \notin SSIDs
    THEN st
    ELSE LET refreshed == anjay_active_server_refresh(st, ssid, is_offline,
                                                      inp.up, inp.resumed)
         IN  IF refreshed.rv # 0
             THEN send_update_sched_job_retry(refreshed, ssid, inp)
             ELSE IF ssid = ANJAY_SSID_BOOTSTRAP
             THEN refreshed
             ELSE anjay_server_registration_update(refreshed, ssid, inp)

\* a job that treats the Bootstrap Server like a regular one
send_update_sched_job_update_bootstrap(st, ssid, is_offline, inp) ==
    IF anjay_servers_find_active(st, ssid) = NULL
    THEN st
    ELSE LET refreshed == anjay_active_server_refresh(st, ssid, is_offline,
                                                      inp.up, inp.resumed)
         IN  IF refreshed.rv # 0
             THEN IF ~ServerExpired(refreshed, ssid)
                  THEN send_update_sched_job_retry(refreshed, ssid, inp)
                  ELSE send_update_sched_job_expire(refreshed, ssid, inp)
             ELSE LET u == anjay_server_registration_update(refreshed, ssid, inp)
                  IN  CASE u.rv = ANJAY_UPDATE_SUCCESS -> u
                        [] u.rv = ANJAY_UPDATE_NEEDS_REGISTRATION ->
                              send_update_sched_job_expire(u, ssid, inp)
                        [] OTHER -> send_update_sched_job_retry(u, ssid, inp)

send_update_sched_job(st, ssid, is_offline, inp) ==
    IF anjay_servers_find_active(st, ssid) = NULL
    THEN st
    ELSE LET refreshed == anjay_active_server_refresh(st, ssid, is_offline,
                                                      inp.up, inp.resumed)
         IN  IF refreshed.rv # 0
             THEN IF ~ServerExpired(refreshed, ssid)
                  THEN send_update_sched_job_retry(refreshed, ssid, inp)
                  ELSE send_update_sched_job_expire(refreshed, ssid, inp)
             ELSE IF ssid = ANJAY_SSID_BOOTSTRAP
             THEN refreshed
             ELSE LET u == anjay_server_registration_update(refreshed, ssid, inp)
                  IN  CASE u.rv = ANJAY_UPDATE_SUCCESS -> u
                        [] u.rv = ANJAY_UPDATE_NEEDS_REGISTRATION ->
                              send_update_sched_job_expire(u, ssid, inp)
                        [] OTHER -> send_update_sched_job_retry(u, ssid, inp)

\* the scheduler takes a due job off its queue and clears the handle that
\* refers to it before it runs the job
sched_pop(st, j) ==
    [st EXCEPT !.jobs[j] = NoJob,
               !.servers = [s \in SSIDs |->
                   IF @[s].next_action_handle = j
                   THEN [@[s] EXCEPT !.next_action_handle = NULL]
                   ELSE @[s]]]

\* activation of an Inactive entry (activate_server_job): connects, and for
\* a regular server registers; the entry stays Active only if that succeeds
activate_server(st, ssid, is_offline, inp) ==
    LET fresh == [st EXCEPT !.servers[ssid] =
                     [InactiveServer EXCEPT !.active = TRUE]]
        refreshed == anjay_active_server_refresh(fresh, ssid, is_offline,
                                                 inp.up, inp.resumed)
        cleaned(x) == Ret([anjay_sched_del(x, ssid)
                               EXCEPT !.servers[ssid] = InactiveServer], -1)
    IN  IF refreshed.rv # 0
        THEN cleaned(refreshed)
        ELSE IF ssid = ANJAY_SSID_BOOTSTRAP
        THEN Ret(refreshed, 0)
        ELSE LET r == anjay_server_ensure_valid_registration(refreshed, ssid,
                                                             inp)
             IN  IF r.rv = ANJAY_REGISTRATION_SUCCESS
                 THEN Ret(r, 0)
                 ELSE cleaned(r)

\* ------------------------------------------------------------------------
\* Initial state and actions of the registration machine
\* ------------------------------------------------------------------------
NoProbe == [kind |-> "none"]

Done(op, ssid, st) ==
    /\ servers' = st.servers
    /\ jobs' = st.jobs
    /\ last' = [op |-> op, ssid |-> ssid, rv |-> st.rv, events |-> st.events]

Init ==
    /\ servers = [s \in SSIDs |-> InactiveServer]
    /\ jobs = [j \in JobIds |-> NoJob]
    /\ now = 0
    /\ offline = FALSE
    /\ last = [op |-> "init", ssid |-> ANJAY_SSID_ANY, rv |-> 0, events |-> <<>>]
    /\ probe = NoProbe

Cur == StateOf(servers, jobs)

\* the transports the Binding of a server enables
EnabledTransports(ssid) ==
    {t \in ConnTypes :
        anjay_get_connection_mode(BindingOf(ssid), t) # ANJAY_CONNECTION_DISABLED}

\* the connect results a refresh of the server may meet: which of the
\* transports that are not online yet connect now, and, when the primary one
\* is among them, whether its session is resumed
ConnectInputs(ssid) ==
    LET down == {t \in EnabledTransports(ssid) :
                    servers[ssid].conn[t].socket # "online"}
    IN  UNION {{[NoInput EXCEPT !.up = u, !.resumed = r] :
                    r \in IF servers[ssid].primary_conn_type \in u
                          THEN BOOLEAN ELSE {TRUE}} :
               u \in SUBSET down}

\* What one run of the driver or of the Update job may meet, given the connect
\* results c; an input the run cannot come to read is left at its default.
\* Either the context cannot be set up, or the Update exchange has one of
\* its outcomes; allocating the next job may fail wherever one is scheduled.
UpdateInputs(c) ==
    {[c EXCEPT !.ctx_init_fails = TRUE, !.alloc_fails = af] : af \in BOOLEAN}
    \cup {[c EXCEPT !.update = upd, !.lifetime = lt, !.alloc_fails = af] :
              upd \in UpdateOutcomes, lt \in ModelLifetimes, af \in BOOLEAN}

\* the Register exchange is reached with the data model unchanged, without an
\* Update or after a rejected one; a job is scheduled only after success
RegisterInputs(c) ==
    {[c EXCEPT !.register = "ok", !.lifetime = lt, !.alloc_fails = af] :
        lt \in ModelLifetimes, af \in BOOLEAN}
    \cup {[c EXCEPT !.register = reg] : reg \in RegisterOutcomes \ {"ok"}}

\* the results of the side operations of an attempt: both succeed, or both
\* fail
SideInputs ==
    {NoInput, [NoInput EXCEPT !.flush_fails = TRUE, !.hook_fails = TRUE]}

EnsureValidInputs(c) ==
    {[c EXCEPT !.ctx_init_fails = TRUE]}
    \cup RegisterInputs(c)
    \cup {[r EXCEPT !.needs_update = TRUE, !.update = "rejected"] :
              r \in RegisterInputs(c)}
    \cup {[c EXCEPT !.needs_update = TRUE, !.update = upd, !.lifetime = lt,
                    !.alloc_fails = af] :
              upd \in {"ok"}, lt \in ModelLifetimes, af \in BOOLEAN}
    \cup {[c EXCEPT !.needs_update = TRUE, !.update = upd] :
              upd \in {"network", "other"}}

\* a point in time one second earlier; what is already a second or more in
\* the past stays in the past
Earlier(t) ==
    IF ~avs_time_duration_valid(t) THEN t
    ELSE IF t.seconds >= 1 THEN Dur(t.seconds - 1, t.nanoseconds)
    ELSE Dur(0, 0)

\* One second passes. Up to MaxNow the clock reading grows; from then on the
\* reading is kept and every stored point in time is moved one second back
\* instead, which keeps every difference to the current time the code
\* computes, except that the age of what is already past is not counted.
Tick ==
    /\ last' = [op |-> "tick", ssid |-> ANJAY_SSID_ANY, rv |-> 0,
                events |-> <<>>]
    /\ IF now < MaxNow
       THEN /\ now' = now + 1
            /\ UNCHANGED <<servers, jobs>>
       ELSE /\ now' = now
            /\ servers' = [s \in SSIDs |->
                              [servers[s] EXCEPT !.expire_time = Earlier(@)]]
            /\ jobs' = [j \in JobIds |->
                           IF jobs[j] = NoJob THEN NoJob
                           ELSE [jobs[j] EXCEPT !.at = Earlier(@)]]
    /\ UNCHANGED <<offline, probe>>

\* anjay_enter_offline(): every socket is suspended, the client is offline
EnterOffline ==
    /\ ~offline
    /\ offline' = TRUE
    /\ LET suspendAll[i \in 0..Len(ServerList)] ==
               IF i = 0 THEN Cur
               ELSE IF suspendAll[i - 1].servers[ServerList[i]].active
                    THEN anjay_connection_suspend(suspendAll[i - 1],
                                                  ServerList[i],
                                                  ANJAY_CONNECTION_UNSET)
                    ELSE suspendAll[i - 1]
       IN  Done("enter_offline", ANJAY_SSID_ANY,
                suspendAll[Len(ServerList)])
    /\ UNCHANGED <<now, probe>>

ExitOffline ==
    /\ offline
    /\ offline' = FALSE
    /\ Done("exit_offline", ANJAY_SSID_ANY, Cur)
    /\ UNCHANGED <<now, probe>>

Activate ==
    \E ssid \in SSIDs :
        /\ ~servers[ssid].active
        /\ ~offline
        /\ \E c \in ConnectInputs(ssid) :
              \E inp \in {[c EXCEPT !.ctx_init_fails = TRUE]}
                          \cup RegisterInputs(c) :
                  Done("activate", ssid,
                       activate_server(Cur, ssid, offline, inp))
        /\ UNCHANGED <<now, offline, probe>>

ScheduleRegistrationUpdate ==
    \E ssid \in SSIDs \cup {ANJAY_SSID_ANY, UNKNOWN_SSID} :
      \E failing \in SUBSET {s \in SSIDs : /\ servers[s].active
                                            /\ ssid \in {s, ANJAY_SSID_ANY}} :
        /\ Done("anjay_schedule_registration_update", ssid,
                anjay_schedule_registration_update(Cur, ssid, offline, failing))
        /\ UNCHANGED <<now, offline, probe>>

RescheduleUpdateJob ==
    \E ssid \in SSIDs, af \in BOOLEAN :
        /\ servers[ssid].active
        /\ ssid # ANJAY_SSID_BOOTSTRAP
        /\ Done("_anjay_server_reschedule_update_job", ssid,
                anjay_server_reschedule_update_job(Cur, ssid, af))
        /\ UNCHANGED <<now, offline, probe>>

JobDue(j) ==
    /\ jobs[j] # NoJob
    /\ ~avs_time_duration_less(NowReal, jobs[j].at)

\* a direct call of _anjay_server_registration_update() for an Active
\* regular server
ServerRegistrationUpdate ==
    \E ssid \in SSIDs, nu \in BOOLEAN, ff \in BOOLEAN :
        /\ servers[ssid].active
        /\ ssid # ANJAY_SSID_BOOTSTRAP
        /\ \E inp \in UpdateInputs([NoInput EXCEPT !.needs_update = nu,
                                                  !.flush_fails = ff]) :
              Done("_anjay_server_registration_update", ssid,
                   anjay_server_registration_update(Cur, ssid, inp))
        /\ UNCHANGED <<now, offline, probe>>

\* a direct call of _anjay_server_ensure_valid_registration() for an Active
\* regular server, as made when the server is reloaded
ServerEnsureValidRegistration ==
    \E ssid \in SSIDs :
        /\ servers[ssid].active
        /\ ssid # ANJAY_SSID_BOOTSTRAP
        /\ \E side \in SideInputs :
            \E inp \in EnsureValidInputs(side) :
              Done("_anjay_server_ensure_valid_registration", ssid,
                   anjay_server_ensure_valid_registration(Cur, ssid, inp))
        /\ UNCHANGED <<now, offline, probe>>

\* _anjay_server_deactivate() with zero delay, as requested by the
\* application or by the Update job
Deactivate ==
    \E ssid \in SSIDs :
        /\ \E inp \in {NoInput, [NoInput EXCEPT !.bind_fails = TRUE],
                        [NoInput EXCEPT !.dereg_fails = TRUE]} :
              Done("_anjay_server_deactivate", ssid,
                   anjay_server_deactivate(Cur, ssid, inp))
        /\ UNCHANGED <<now, offline, probe>>

\* a direct call of _anjay_active_server_refresh() for an Active server, as
\* made when the server is reloaded
ActiveServerRefresh ==
    \E ssid \in SSIDs :
        /\ servers[ssid].active
        /\ \E c \in ConnectInputs(ssid) :
              Done("_anjay_active_server_refresh", ssid,
                   anjay_active_server_refresh(Cur, ssid, offline,
                                               c.up, c.resumed))
        /\ UNCHANGED <<now, offline, probe>>

SendUpdateSchedJob ==
    \E j \in JobIds :
        /\ JobDue(j)
        /\ jobs[j].clb = "send_update_sched_job"
        /\ \E c \in ConnectInputs(jobs[j].ssid) :
              \E inp \in UpdateInputs(c) :
                  Done("send_update_sched_job", jobs[j].ssid,
                       send_update_sched_job(sched_pop(Cur, j), jobs[j].ssid,
                                             offline, inp))
        /\ UNCHANGED <<now, offline, probe>>

Next ==
    \/ Tick
    \/ EnterOffline
    \/ ExitOffline
    \/ Activate
    \/ ScheduleRegistrationUpdate
    \/ RescheduleUpdateJob
    \/ Deactivate
    \/ SendUpdateSchedJob

Spec == Init /\ [][Next]_vars

\* _anjay_schedule_reregister() for an Active server
ScheduleReregister ==
    \E ssid \in SSIDs :
        /\ servers[ssid].active
        /\ Done("_anjay_schedule_reregister", ssid,
                anjay_schedule_reregister(Cur, ssid, NoInput))
        /\ UNCHANGED <<now, offline, probe>>

\* _anjay_schedule_socket_update() for the Security instance of any server,
\* or of none
ScheduleSocketUpdate ==
    \E ssid \in SSIDs \cup {UNKNOWN_SSID}, af \in BOOLEAN :
        /\ Done("_anjay_schedule_socket_update", ssid,
                anjay_schedule_socket_update(Cur, ssid, af))
        /\ UNCHANGED <<now, offline, probe>>

\* The registration machine with the operations that force a new
\* registration: the driver's entry points, the Update job, the forced
\* re-registration and the socket update, whose deactivation runs later.
ForceNext ==
    \/ Tick
    \/ Activate
    \/ ServerRegistrationUpdate
    \/ ServerEnsureValidRegistration
    \/ SendUpdateSchedJob
    \/ ScheduleReregister
    \/ ScheduleSocketUpdate
    \/ Deactivate

ForceSpec == Init /\ [][ForceNext]_vars

\* The registration driver called directly, as the code that activates and
\* reloads servers does, with the clock and the connections changing between
\* the calls.
DriverNext ==
    \/ Tick
    \/ EnterOffline
    \/ ExitOffline
    \/ Activate
    \/ ActiveServerRefresh
    \/ ServerRegistrationUpdate
    \/ ServerEnsureValidRegistration

DriverSpec == Init /\ [][DriverNext]_vars

\* ------------------------------------------------------------------------
\* Properties of the registration machine
\* ------------------------------------------------------------------------
PendingJobsOf(jbs, ssid) == {j \in JobIds : jbs[j] # NoJob /\ jbs[j].ssid = ssid}

\* position of the first occurrence of an event in a sequence, 0 if absent
FirstIndex(events, e) ==
    IF \E i \in 1..Len(events) : events[i] = e
    THEN CHOOSE i \in 1..Len(events) :
            events[i] = e /\ \A k \in 1..(i - 1) : events[k] # e
    ELSE 0

RescheduleOps ==
    {"anjay_schedule_registration_update",
     "_anjay_server_reschedule_update_job", "send_update_sched_job"}

\* C1: after any sequence of anjay_schedule_registration_update calls,
\* _anjay_server_reschedule_update_job calls and firings of the Update job,
\* every Server Entry has at most one pending scheduled job, and that job is
\* the one its next_action_handle refers to.
C1_AtMostOnePendingJob ==
    \A s \in SSIDs :
        /\ Cardinality(PendingJobsOf(jobs, s)) <= 1
        /\ PendingJobsOf(jobs, s) \subseteq {servers[s].next_action_handle}

\* a reschedule found a pending job, cancelled it and scheduled the new one
C1_Witness ==
    /\ last.op \in RescheduleOps
    /\ \E s \in SSIDs :
        /\ FirstIndex(last.events, <<"cancel", s>>) > 0
        /\ \E i \in 1..Len(last.events) :
              /\ last.events[i][1] = "schedule"
              /\ last.events[i][2] = s
              /\ i > FirstIndex(last.events, <<"cancel", s>>)
        /\ Cardinality(PendingJobsOf(jobs, s)) = 1

IsActive(ssid) == ssid \in SSIDs /\ servers[ssid].active

\* C9: anjay_schedule_registration_update returns an error and changes no
\* server and no pending job when the client is offline, and when a specific
\* SSID is given that no Active entry carries.
C9_ErrorChangesNothing ==
    [][(/\ last'.op = "anjay_schedule_registration_update"
        /\ \/ offline
           \/ last'.ssid # ANJAY_SSID_ANY /\ ~IsActive(last'.ssid))
       => (last'.rv # 0 /\ servers' = servers /\ jobs' = jobs)]_vars

\* the call was made offline for all servers while a job was pending
C9_Witness ==
    /\ last.op = "anjay_schedule_registration_update"
    /\ last.ssid = ANJAY_SSID_ANY
    /\ offline
    /\ last.rv = -1
    /\ \E s \in SSIDs : servers[s].active /\ PendingJobsOf(jobs, s) # {}

ScheduleFailed(events, s) == FirstIndex(events, <<"schedule_failed", s>>) > 0

ScheduledNow(events, s) ==
    FirstIndex(events, <<"schedule", s, AVS_TIME_DURATION_ZERO>>)

\* C10: when the client is online, anjay_schedule_registration_update(ssid)
\* cancels the pending job of that Active server and schedules the Update job
\* with zero delay; with ANY it does so for every Active server and for no
\* Inactive one, goes on after a scheduling failure and returns the first
\* failure (0 if none).
C10_ScheduleUpdateNow ==
    [][(/\ last'.op = "anjay_schedule_registration_update"
        /\ ~offline
        /\ last'.ssid = ANJAY_SSID_ANY \/ IsActive(last'.ssid))
       => LET target == IF last'.ssid = ANJAY_SSID_ANY
                        THEN {s \in SSIDs : servers[s].active}
                        ELSE {last'.ssid}
          IN  /\ \A s \in target :
                    LET h == servers'[s].next_action_handle
                    IN  /\ servers'[s] =
                               [servers[s] EXCEPT !.next_action_handle = h]
                        /\ IF ScheduleFailed(last'.events, s)
                           THEN /\ h = NULL
                                /\ PendingJobsOf(jobs', s) = {}
                                /\ ScheduledNow(last'.events, s) = 0
                           ELSE /\ h # NULL
                                /\ PendingJobsOf(jobs', s) = {h}
                                /\ jobs'[h] =
                                      [ssid |-> s, at |-> NowReal,
                                       clb |-> "send_update_sched_job"]
                                /\ ScheduledNow(last'.events, s) > 0
                        /\ servers[s].next_action_handle # NULL =>
                              LET c == FirstIndex(last'.events, <<"cancel", s>>)
                              IN  /\ c > 0
                                  /\ ScheduledNow(last'.events, s) > 0 =>
                                         c < ScheduledNow(last'.events, s)
              /\ \A s \in SSIDs \ target :
                    /\ servers'[s] = servers[s]
                    /\ \A j \in JobIds :
                          (jobs[j].ssid = s \/ jobs'[j].ssid = s) =>
                              jobs'[j] = jobs[j]
              /\ last'.rv = IF \E s \in target : ScheduleFailed(last'.events, s)
                            THEN -1 ELSE 0]_vars

\* with ANY, the job of the first server could not be scheduled and the
\* job of a later Active server was scheduled all the same
C10_Witness ==
    /\ last.op = "anjay_schedule_registration_update"
    /\ last.ssid = ANJAY_SSID_ANY
    /\ ~offline
    /\ last.rv = -1
    /\ ScheduleFailed(last.events, ServerList[1])
    /\ ScheduledNow(last.events, ServerList[2])
            > FirstIndex(last.events, <<"schedule_failed", ServerList[1]>>)
    /\ PendingJobsOf(jobs, ServerList[2]) # {}

\* ------------------------------------------------------------------------
\* Probe of the expiry and Update-delay computations: one registration with
\* its lifetime, expiry time, clock and transport
\* ------------------------------------------------------------------------
HALF_S == NS_IN_S \div 2

ProbeLifetimes == (1..MaxLifetime) \cup {60}

ProbeTransmitWaits == {Dur(0, HALF_S), Dur(1, 0), Dur(5, 0), Dur(93, 0)}

ProbeNows == {Dur(100, 0), Dur(100, HALF_S), Dur(100, NS_IN_S - 1)}

ProbeExpireTimes ==
    {AVS_TIME_REAL_INVALID, Dur(100000, 0)}
        \cup {Dur(s, ns) : s \in 98..(101 + MaxLifetime), ns \in {0, 1, HALF_S}}

DelayProbeInit ==
    /\ servers = [s \in SSIDs |-> InactiveServer]
    /\ jobs = [j \in JobIds |-> NoJob]
    /\ now = 0
    /\ offline = FALSE
    /\ last = [op |-> "init", ssid |-> ANJAY_SSID_ANY, rv |-> 0, events |-> <<>>]
    /\ probe \in
        {[kind |-> "delay", pc |-> "input", lifetime_s |-> l,
          max_transmit_wait |-> w, now |-> n, expire_time |-> e,
          fresh |-> FALSE, expired |-> FALSE,
          remaining |-> AVS_TIME_DURATION_INVALID,
          margin |-> AVS_TIME_DURATION_INVALID,
          delay |-> AVS_TIME_DURATION_INVALID] :
            l \in ProbeLifetimes, w \in ProbeTransmitWaits, n \in ProbeNows,
            e \in ProbeExpireTimes}

ProbeFrame == UNCHANGED <<servers, jobs, now, offline, last>>

\* _anjay_server_registration_expired() on the registration
ProbeRegistrationExpired ==
    /\ probe.pc \in {"input", "registered"}
    /\ probe' = [probe EXCEPT
                    !.pc = "queried",
                    !.expired = anjay_server_registration_expired(
                                    probe.expire_time, probe.now)]
    /\ ProbeFrame

\* a successful Register or Update: _anjay_server_update_registration_info()
ProbeUpdateRegistrationInfo ==
    /\ probe.pc = "input"
    /\ probe' = [probe EXCEPT
                    !.pc = "registered",
                    !.fresh = TRUE,
                    !.expire_time = get_registration_expire_time(
                                        probe.lifetime_s, probe.now)]
    /\ ProbeFrame

\* schedule_next_update() on the registration
ProbeScheduleNextUpdate ==
    /\ probe.pc \in {"input", "registered"}
    /\ probe' = [probe EXCEPT
                    !.pc = "scheduled",
                    !.remaining = anjay_register_time_remaining(
                                      probe.expire_time, probe.now),
                    !.margin = get_server_update_interval_margin(
                                   probe.lifetime_s, probe.max_transmit_wait),
                    !.delay = schedule_next_update_delay(
                                  probe.expire_time, probe.now,
                                  probe.lifetime_s, probe.max_transmit_wait)]
    /\ ProbeFrame

DelayProbeNext ==
    \/ ProbeRegistrationExpired
    \/ ProbeUpdateRegistrationInfo
    \/ ProbeScheduleNextUpdate

DelayProbeSpec == DelayProbeInit /\ [][DelayProbeNext]_vars

\* ---- what the claims say, in terms of the time values themselves ---------
Valid(d) == d.nanoseconds \in 0..(NS_IN_S - 1)

\* a < b and a <= b for valid durations or times
Before(a, b) ==
    \/ a.seconds < b.seconds
    \/ a.seconds = b.seconds /\ a.nanoseconds < b.nanoseconds

NotAfter(a, b) == a = b \/ Before(a, b)

\* a + b for valid durations
Plus(a, b) ==
    IF a.nanoseconds + b.nanoseconds >= NS_IN_S
    THEN Dur(a.seconds + b.seconds + 1, a.nanoseconds + b.nanoseconds - NS_IN_S)
    ELSE Dur(a.seconds + b.seconds, a.nanoseconds + b.nanoseconds)

\* the shorter of two valid durations
Shorter(a, b) == IF Before(a, b) THEN a ELSE b

\* lifetime / k seconds as a duration, for k dividing 10^9
LifetimeOver(lifetime_s, k) ==
    Dur(lifetime_s \div k, (lifetime_s % k) * (NS_IN_S \div k))

\* C2: the registration counts as expired exactly when expire_time is
\* Invalid or not after the current time (zero time remaining included), and
\* as unexpired when expire_time lies strictly in the future.
C2_ExpiredIffInvalidOrPast ==
    probe.pc = "queried" =>
        probe.expired = (\/ ~Valid(probe.expire_time)
                         \/ NotAfter(probe.expire_time, probe.now))

\* an Invalid expiry was queried and reported expired
C2_Witness ==
    /\ probe.pc = "queried"
    /\ probe.expire_time = AVS_TIME_REAL_INVALID
    /\ probe.expired

\* C3: for every lifetime > 0 and every remaining time (positive, zero,
\* negative or Invalid) the delay handed to the scheduler is at least one
\* second, and exactly one second when remaining - margin is below a second.
C3_DelayAtLeastFloor ==
    probe.pc = "scheduled" =>
        /\ Valid(probe.delay)
        /\ probe.delay.seconds >= 1
        /\ (\/ ~Valid(probe.remaining)
            \/ Before(probe.remaining, Plus(probe.margin, Dur(1, 0))))
                => probe.delay = Dur(1, 0)

\* lifetime 2 s with the whole lifetime remaining: scheduled one second ahead
C3_Witness ==
    /\ probe.pc = "scheduled"
    /\ probe.lifetime_s = 2
    /\ probe.fresh
    /\ probe.delay = Dur(1, 0)

\* C4 as stated: right after a successful Register/Update the delay is at
\* most lifetime - margin, for every lifetime > 0.
C4_Original ==
    (probe.pc = "scheduled" /\ probe.fresh) =>
        NotAfter(Plus(probe.delay, probe.margin), Dur(probe.lifetime_s, 0))

\* C4 amended: right after a successful Register/Update the delay is at most
\* lifetime - margin whenever lifetime - margin is at least one second, which
\* is so for every lifetime of 2 s or more; otherwise it is the one-second
\* floor.
C4_DelayAtMostLifetimeMinusMargin ==
    (probe.pc = "scheduled" /\ probe.fresh) =>
        LET roomy == NotAfter(Plus(probe.margin, Dur(1, 0)),
                              Dur(probe.lifetime_s, 0))
        IN  /\ probe.lifetime_s >= 2 => roomy
            /\ IF roomy
               THEN NotAfter(Plus(probe.delay, probe.margin),
                             Dur(probe.lifetime_s, 0))
               ELSE probe.delay = Dur(1, 0)

\* a fresh registration with a lifetime above the floor was scheduled
C4_Witness ==
    /\ probe.pc = "scheduled"
    /\ probe.fresh
    /\ probe.lifetime_s = 3
    /\ probe.max_transmit_wait = Dur(5, 0)
    /\ probe.delay = Dur(1, HALF_S)

\* C5 as stated: margin = min(lifetime/4, max_transmit_wait), so that
\* margin <= lifetime/4.
C5_Original ==
    probe.pc = "scheduled" =>
        /\ probe.margin = Shorter(LifetimeOver(probe.lifetime_s, 4),
                                  probe.max_transmit_wait)
        /\ NotAfter(probe.margin, LifetimeOver(probe.lifetime_s, 4))

\* C5 amended: margin = min(lifetime/2, max_transmit_wait), so that
\* margin <= lifetime/2 for every lifetime > 0 and every max_transmit_wait.
C5_MarginIsMinOfHalfLifetime ==
    probe.pc = "scheduled" =>
        /\ probe.margin = Shorter(LifetimeOver(probe.lifetime_s, 2),
                                  probe.max_transmit_wait)
        /\ NotAfter(probe.margin, LifetimeOver(probe.lifetime_s, 2))

\* a margin of half the lifetime, above a quarter of it
C5_Witness ==
    /\ probe.pc = "scheduled"
    /\ probe.lifetime_s = 4
    /\ probe.max_transmit_wait = Dur(5, 0)
    /\ probe.margin = Dur(2, 0)

BindingLetters == {"U", "Q", "S"}

ProbeBindings ==
    UNION {[1..n -> BindingLetters] : n \in 0..MaxBindingLen}

\* the connections of a server whose actual binding mode is asked for
ProbeConnections ==
    [ConnTypes -> [socket : SocketStates, mode : ConnectionModes]]

\* _anjay_connection_current_mode(): the cached mode of a transport that
\* has a socket, DISABLED otherwise
anjay_connection_current_mode(conn, conn_type) ==
    IF conn[conn_type].socket # "none"
    THEN conn[conn_type].mode
    ELSE ANJAY_CONNECTION_DISABLED

\* has_server is FALSE for a NULL server; conn are the server's connections
anjay_server_actual_binding_mode(has_server, conn) ==
    IF ~has_server
    THEN [rv |-> -1, out |-> <<>>]
    ELSE binding_mode_from_connection_modes(
             anjay_connection_current_mode(conn, ANJAY_CONNECTION_UDP),
             anjay_connection_current_mode(conn, ANJAY_CONNECTION_SMS))

BindingProbeInit ==
    /\ servers = [s \in SSIDs |-> InactiveServer]
    /\ jobs = [j \in JobIds |-> NoJob]
    /\ now = 0
    /\ offline = FALSE
    /\ last = [op |-> "init", ssid |-> ANJAY_SSID_ANY, rv |-> 0, events |-> <<>>]
    /\ probe \in
        {[kind |-> "binding", pc |-> "input", binding_mode |-> b,
          has_server |-> FALSE, conn |-> [t \in ConnTypes |-> NoConnection],
          udp_mode |-> ANJAY_CONNECTION_DISABLED,
          sms_mode |-> ANJAY_CONNECTION_DISABLED,
          rv |-> 0, out |-> <<>>] : b \in ProbeBindings}
        \cup
        {[kind |-> "binding", pc |-> "input", binding_mode |-> <<>>,
          has_server |-> TRUE, conn |-> c,
          udp_mode |-> ANJAY_CONNECTION_DISABLED,
          sms_mode |-> ANJAY_CONNECTION_DISABLED,
          rv |-> 0, out |-> <<>>] : c \in ProbeConnections}

\* _anjay_get_connection_mode() for both transports
ProbeGetConnectionModes ==
    /\ probe.pc = "input"
    /\ probe' = [probe EXCEPT
                    !.pc = "modes",
                    !.udp_mode = anjay_get_connection_mode(
                                     probe.binding_mode, ANJAY_CONNECTION_UDP),
                    !.sms_mode = anjay_get_connection_mode(
                                     probe.binding_mode, ANJAY_CONNECTION_SMS)]
    /\ ProbeFrame

\* binding_mode_from_connection_modes() on the modes just computed
ProbeBindingFromModes ==
    /\ probe.pc = "modes"
    /\ LET r == binding_mode_from_connection_modes(probe.udp_mode,
                                                   probe.sms_mode)
       IN  probe' = [probe EXCEPT !.pc = "rebuilt", !.rv = r.rv, !.out = r.out]
    /\ ProbeFrame

\* _anjay_server_actual_binding_mode() on the server, or on NULL
ProbeActualBindingMode ==
    /\ probe.pc = "input"
    /\ LET r == anjay_server_actual_binding_mode(probe.has_server, probe.conn)
       IN  probe' = [probe EXCEPT
                        !.pc = "actual",
                        !.udp_mode =
                            IF probe.has_server
                            THEN anjay_connection_current_mode(
                                     probe.conn, ANJAY_CONNECTION_UDP)
                            ELSE @,
                        !.sms_mode =
                            IF probe.has_server
                            THEN anjay_connection_current_mode(
                                     probe.conn, ANJAY_CONNECTION_SMS)
                            ELSE @,
                        !.rv = r.rv, !.out = r.out]
    /\ ProbeFrame

BindingProbeNext ==
    \/ ProbeGetConnectionModes
    \/ ProbeBindingFromModes
    \/ ProbeActualBindingMode

BindingProbeSpec == BindingProbeInit /\ [][BindingProbeNext]_vars

\* the six binding strings of the LwM2M specification
SixBindings ==
    {<<"U">>, <<"U", "Q">>, <<"S">>, <<"S", "Q">>, <<"U", "S">>,
     <<"U", "Q", "S">>}

\* C7: for each of the six valid binding strings, the connection modes of
\* UDP and SMS put together again give that string, with success.
C7_BindingRoundTrip ==
    (probe.pc = "rebuilt" /\ probe.binding_mode \in SixBindings) =>
        (probe.rv = 0 /\ probe.out = probe.binding_mode)

\* UQS was taken apart into Queue and Online and rebuilt
C7_Witness ==
    /\ probe.pc = "rebuilt"
    /\ probe.binding_mode = <<"U", "Q", "S">>
    /\ probe.udp_mode = ANJAY_CONNECTION_QUEUE
    /\ probe.sms_mode = ANJAY_CONNECTION_ONLINE
    /\ probe.rv = 0
    /\ probe.out = <<"U", "Q", "S">>

\* C8: for every pair of modes the binding mode is either built with success
\* and is one of the six strings, or an error is returned; success never
\* comes with another string, and an absent server gives an error.
C8_ValidBindingOrError ==
    probe.pc \in {"actual", "rebuilt"} =>
        /\ probe.rv \in {0, -1}
        /\ probe.rv = 0 => probe.out \in SixBindings
        /\ (probe.pc = "actual" /\ ~probe.has_server) => probe.rv = -1

\* both transports in queue mode: UQSQ is refused
C8_Witness ==
    /\ probe.pc = "actual"
    /\ probe.has_server
    /\ probe.udp_mode = ANJAY_CONNECTION_QUEUE
    /\ probe.sms_mode = ANJAY_CONNECTION_QUEUE
    /\ probe.out = <<"U", "Q", "S", "Q">>
    /\ probe.rv = -1

\* ------------------------------------------------------------------------
\* Validation of the Server object (modules/server/src/server_transaction.c)
\* ------------------------------------------------------------------------
MaxInstances == 3

ANJAY_ERR_BAD_REQUEST == -128

ANJAY_ERR_INTERNAL == -160

\* a binding pointer that is NULL
NullString == <<"NULL">>

\* ssid_cmp(): the difference of the two SSIDs, computed in int
ssid_cmp_equal(a, b) == 0

ssid_cmp(a, b) == a - b

\* validate_instance() without the test of the Lifetime value
validate_instance_any_lifetime(it) ==
    IF ~it.has_ssid THEN -1
    ELSE IF it.binding = NullString THEN -1
    ELSE IF ~it.has_lifetime THEN -1
    ELSE IF ~it.has_notification_storing THEN -1
    ELSE IF it.default_max_period = 0 THEN -1
    ELSE IF ~anjay_binding_mode_valid(it.binding) THEN -1
    ELSE 0

validate_instance(it) ==
    IF ~it.has_ssid THEN -1
    ELSE IF it.binding = NullString THEN -1
    ELSE IF ~it.has_lifetime THEN -1
    ELSE IF ~it.has_notification_storing THEN -1
    ELSE IF it.lifetime <= 0 THEN -1
    ELSE IF it.default_max_period = 0 THEN -1
    ELSE IF ~anjay_binding_mode_valid(it.binding) THEN -1
    ELSE 0

\* the AVS_LIST_FOREACH loop of _anjay_serv_object_validate from instance i
\* on: each validated instance has its SSID put at the head of seen_ssids;
\* alloc_fail_at is the number of the insertion that cannot be allocated
\* (0: none fails)
RECURSIVE serv_object_validate_collect(_, _, _, _)
serv_object_validate_collect(instances, i, seen_ssids, alloc_fail_at) ==
    IF i > Len(instances)
    THEN [result |-> 0, seen_ssids |-> seen_ssids]
    ELSE IF validate_instance(instances[i]) # 0
    THEN [result |-> ANJAY_ERR_BAD_REQUEST, seen_ssids |-> seen_ssids]
    ELSE IF alloc_fail_at = i
    THEN [result |-> ANJAY_ERR_INTERNAL, seen_ssids |-> seen_ssids]
    ELSE serv_object_validate_collect(
             instances, i + 1, <<instances[i].ssid>> \o seen_ssids,
             alloc_fail_at)

\* AVS_LIST_SORT(): the list in ascending order of the comparator
RECURSIVE AVS_LIST_SORT(_)
AVS_LIST_SORT(list) ==
    IF Len(list) <= 1
    THEN list
    ELSE LET rest == AVS_LIST_SORT(Tail(list))
             before == {k \in 1..Len(rest) : ssid_cmp(rest[k], Head(list)) < 0}
             n == Cardinality(before)
         IN  SubSeq(rest, 1, n) \o <<Head(list)>> \o SubSeq(rest, n + 1, Len(rest))

\* the scan of the sorted list for two equal neighbours, from position i on
RECURSIVE serv_object_validate_scan(_, _)
serv_object_validate_scan(sorted, i) ==
    IF i >= Len(sorted)
    THEN 0
    ELSE IF sorted[i] = sorted[i + 1]
    THEN ANJAY_ERR_BAD_REQUEST
    ELSE serv_object_validate_scan(sorted, i + 1)

anjay_serv_object_validate(instances, alloc_fail_at) ==
    IF instances = <<>>
    THEN 0
    ELSE LET c == serv_object_validate_collect(instances, 1, <<>>,
                                               alloc_fail_at)
         IN  IF c.result # 0
             THEN c.result
             ELSE serv_object_validate_scan(AVS_LIST_SORT(c.seen_ssids), 1)

anjay_serv_transaction_validate_impl(instances, alloc_fail_at) ==
    anjay_serv_object_validate(instances, alloc_fail_at)

\* ---- the instances validation is run on ----------------------------------
GoodInstance(ssid) ==
    [has_ssid |-> TRUE, ssid |-> ssid, binding |-> <<"U">>,
     has_lifetime |-> TRUE, lifetime |-> 1,
     has_notification_storing |-> TRUE, default_max_period |-> 1]

ProbeSsids == {1, 2, ANJAY_SSID_BOOTSTRAP}

ProbeInstances ==
    {GoodInstance(s) : s \in ProbeSsids}
    \cup {[GoodInstance(1) EXCEPT !.has_ssid = FALSE],
          [GoodInstance(1) EXCEPT !.binding = NullString],
          [GoodInstance(1) EXCEPT !.binding = <<"U", "S", "Q">>],
          [GoodInstance(1) EXCEPT !.has_lifetime = FALSE],
          [GoodInstance(1) EXCEPT !.lifetime = 0],
          [GoodInstance(1) EXCEPT !.lifetime = -1],
          [GoodInstance(1) EXCEPT !.has_notification_storing = FALSE],
          [GoodInstance(1) EXCEPT !.default_max_period = 0],
          [GoodInstance(2) EXCEPT !.binding = <<"U", "Q", "S">>,
                                  !.default_max_period = -1]}

RECURSIVE InstanceLists(_)
InstanceLists(n) ==
    IF n = 0
    THEN {<<>>}
    ELSE InstanceLists(n - 1)
         \cup {Append(l, it) : l \in {x \in InstanceLists(n - 1) :
                                        Len(x) = n - 1},
                               it \in ProbeInstances}

ValidateProbeInit ==
    /\ servers = [s \in SSIDs |-> InactiveServer]
    /\ jobs = [j \in JobIds |-> NoJob]
    /\ now = 0
    /\ offline = FALSE
    /\ last = [op |-> "init", ssid |-> ANJAY_SSID_ANY, rv |-> 0, events |-> <<>>]
    /\ probe \in
        {[kind |-> "validate", pc |-> "input", instances |-> l,
          alloc_fail_at |-> a, result |-> 0] :
            l \in InstanceLists(MaxInstances), a \in 0..MaxInstances}

\* _anjay_serv_transaction_validate_impl() on the instance list
ProbeTransactionValidate ==
    /\ probe.pc = "input"
    /\ probe' = [probe EXCEPT
                    !.pc = "validated",
                    !.result = anjay_serv_transaction_validate_impl(
                                   probe.instances, probe.alloc_fail_at)]
    /\ ProbeFrame

ValidateProbeNext == ProbeTransactionValidate

ValidateProbeSpec == ValidateProbeInit /\ [][ValidateProbeNext]_vars

\* ---- what the claims say about validation -------------------------------
\* two instances of the list carry the same SSID
SameSsidTwice(instances) ==
    \E i, j \in 1..Len(instances) :
        /\ i < j
        /\ instances[i].has_ssid
        /\ instances[j].has_ssid
        /\ instances[i].ssid = instances[j].ssid

\* the mandatory resources are present and the values are in range
WellFormed(it) ==
    /\ it.has_ssid
    /\ it.binding # NullString
    /\ it.has_lifetime
    /\ it.has_notification_storing
    /\ it.lifetime > 0
    /\ it.default_max_period # 0
    /\ it.binding \in SixBindings

\* an insertion into seen_ssids could not be allocated
AllocationFailed ==
    /\ probe.alloc_fail_at \in 1..Len(probe.instances)
    /\ \A i \in 1..probe.alloc_fail_at : WellFormed(probe.instances[i])

\* C11: an instance list in which two instances carry the same SSID is never
\* accepted, whatever their order or distance in the list: validation returns
\* an error, which is ANJAY_ERR_BAD_REQUEST unless the list of seen SSIDs
\* could not be allocated.
C11_DuplicateSsidRejected ==
    (probe.pc = "validated" /\ SameSsidTwice(probe.instances)) =>
        /\ probe.result # 0
        /\ ~AllocationFailed => probe.result = ANJAY_ERR_BAD_REQUEST

\* the same SSID in the first and the last of three valid instances
C11_Witness ==
    /\ probe.pc = "validated"
    /\ Len(probe.instances) = 3
    /\ \A i \in 1..3 : WellFormed(probe.instances[i])
    /\ probe.instances[1].ssid = probe.instances[3].ssid
    /\ probe.instances[2].ssid # probe.instances[1].ssid
    /\ probe.alloc_fail_at = 0
    /\ probe.result = ANJAY_ERR_BAD_REQUEST

\* C12: absent allocation failure, validation returns 0 if and only if every
\* instance has SSID, Binding, Lifetime and Notification Storing present,
\* Lifetime > 0, Default Max Period # 0 and a Binding among the six valid
\* strings, and all SSIDs are pairwise distinct; the empty list is accepted.
C12_ValidateAcceptsExactlyWellFormed ==
    (probe.pc = "validated" /\ ~AllocationFailed) =>
        /\ probe.result = 0 <=>
              /\ \A i \in 1..Len(probe.instances) :
                    WellFormed(probe.instances[i])
              /\ ~SameSsidTwice(probe.instances)
        /\ probe.instances = <<>> => probe.result = 0

\* three well-formed instances with distinct SSIDs were accepted
C12_Witness ==
    /\ probe.pc = "validated"
    /\ Len(probe.instances) = 3
    /\ \A i \in 1..3 : WellFormed(probe.instances[i])
    /\ ~SameSsidTwice(probe.instances)
    /\ probe.instances[3].default_max_period = -1
    /\ probe.result = 0

\* ------------------------------------------------------------------------
\* Properties of the registration driver
\* ------------------------------------------------------------------------
DriverOps ==
    {"_anjay_server_registration_update",
     "_anjay_server_ensure_valid_registration"}

\* the positions of the events of one kind that concern server s
EventsOf(events, kind, s) ==
    {i \in 1..Len(events) : events[i][1] = kind /\ events[i][2] = s}

\* the primary transport is set and its socket is online
PrimaryValid(s) ==
    /\ servers[s].primary_conn_type \in ConnTypes
    /\ servers[s].conn[servers[s].primary_conn_type].socket = "online"

\* the registration is expired at the current time
Expired(s) ==
    \/ ~Valid(servers[s].expire_time)
    \/ NotAfter(servers[s].expire_time, Dur(now, 0))

\* the context of the attempt found the data model changed, or unchanged
DataModelChanged(events, s) ==
    \E i \in EventsOf(events, "ctx_init", s) : events[i][3]

DataModelUnchanged(events, s) ==
    \E i \in EventsOf(events, "ctx_init", s) : ~events[i][3]

\* no Update and no Register message was sent
NoTraffic(events, s) ==
    /\ EventsOf(events, "Update", s) = {}
    /\ EventsOf(events, "Register", s) = {}

ContextReady(events, s) == EventsOf(events, "ctx_init", s) # {}

RegisterResults(events, s) ==
    {events[i][3] : i \in EventsOf(events, "Register", s)}

\* C17: in _anjay_server_ensure_valid_registration a Register refused as
\* forbidden yields Forbidden and any other Register failure yields Failed;
\* neither outcome calls the bootstrap hook or touches the Update job.
C17_ForbiddenIsDistinct ==
    [][last'.op = "_anjay_server_ensure_valid_registration"
       => LET s == last'.ssid
              ev == last'.events
          IN  /\ "forbidden" \in RegisterResults(ev, s) =>
                    last'.rv = ANJAY_REGISTRATION_FORBIDDEN
              /\ "failed" \in RegisterResults(ev, s) =>
                    last'.rv = ANJAY_REGISTRATION_FAILED
              /\ last'.rv = ANJAY_REGISTRATION_FORBIDDEN =>
                    RegisterResults(ev, s) = {"forbidden"}
              /\ (/\ last'.rv \in {ANJAY_REGISTRATION_FORBIDDEN,
                                   ANJAY_REGISTRATION_FAILED}
                  /\ ~ScheduleFailed(ev, s)) =>
                    /\ EventsOf(ev, "bootstrap_notify", s) = {}
                    /\ EventsOf(ev, "schedule", s) = {}
                    /\ EventsOf(ev, "cancel", s) = {}
                    /\ jobs' = jobs
                    /\ servers'[s].next_action_handle =
                          servers[s].next_action_handle]_vars

\* a forbidden Register left the pending Update job where it was
C17_Witness ==
    /\ last.op = "_anjay_server_ensure_valid_registration"
    /\ last.rv = ANJAY_REGISTRATION_FORBIDDEN
    /\ RegisterResults(last.events, last.ssid) = {"forbidden"}
    /\ PendingJobsOf(jobs, last.ssid) # {}

\* the flushes of the step for the pair (s, primary transport of s), and the
\* last message of the protocol step
FlushesOf(events, s, conn_type) ==
    {i \in 1..Len(events) : events[i] = <<"flush", s, conn_type>>}

LastMessage(events, s) ==
    LET m == EventsOf(events, "Update", s) \cup EventsOf(events, "Register", s)
    IN  IF m = {} THEN 0 ELSE CHOOSE i \in m : \A k \in m : k <= i

\* C18 as stated: every attempt (taken here with its context set up),
\* whatever its outcome, flushes the queued notifications of (SSID, primary
\* transport) after the protocol step.
C18_Original ==
    [][(last'.op \in DriverOps /\ ContextReady(last'.events, last'.ssid))
       => \E i \in FlushesOf(last'.events, last'.ssid,
                             servers'[last'.ssid].primary_conn_type) :
              i > LastMessage(last'.events, last'.ssid)]_vars

\* C18 amended: an attempt flushes the queued notifications of (SSID, primary
\* transport), once and after the protocol step, exactly when the protocol
\* step ended in Success; an attempt that ends in NeedsRegistration,
\* Forbidden or Failed, or whose context cannot be set up, flushes nothing.
C18_FlushAfterSuccessOnly ==
    [][last'.op \in DriverOps
       => LET s == last'.ssid
              ev == last'.events
              f == FlushesOf(ev, s, servers'[s].primary_conn_type)
              succeeded == \/ last'.rv = ANJAY_REGISTRATION_SUCCESS
                           \/ ScheduleFailed(ev, s)
          IN  /\ EventsOf(ev, "flush", s) = f
              /\ IF succeeded
                 THEN /\ Cardinality(f) = 1
                      /\ \A i \in f : i > LastMessage(ev, s)
                 ELSE f = {}]_vars

\* a successful Update was followed by the flush for the primary transport
C18_Witness ==
    /\ last.op = "_anjay_server_registration_update"
    /\ last.rv = ANJAY_UPDATE_SUCCESS
    /\ EventsOf(last.events, "Update", last.ssid) # {}
    /\ \E i \in FlushesOf(last.events, last.ssid,
                          servers[last.ssid].primary_conn_type) :
          i > LastMessage(last.events, last.ssid)

\* a - b for valid durations
Minus(a, b) ==
    IF a.nanoseconds >= b.nanoseconds
    THEN Dur(a.seconds - b.seconds, a.nanoseconds - b.nanoseconds)
    ELSE Dur(a.seconds - b.seconds - 1,
             a.nanoseconds - b.nanoseconds + NS_IN_S)

\* the delay of the next Update for a registration that runs until
\* expire_time: the time remaining less the margin, at least one second
NextUpdateDelay(server, now_s) ==
    LET wait == IF server.primary_conn_type = ANJAY_CONNECTION_SMS
                THEN Dur(SmsMaxTransmitWaitS, 0)
                ELSE Dur(UdpMaxTransmitWaitS, 0)
        margin == Shorter(LifetimeOver(server.lifetime_s, 2), wait)
        d == Minus(Minus(server.expire_time, Dur(now_s, 0)), margin)
    IN  IF Before(d, Dur(1, 0)) THEN Dur(1, 0) ELSE d

\* the attempt cancelled the pending job of s, if any, and then scheduled the
\* next Update, which is now the only pending job of s
NextUpdateScheduled(s) ==
    LET ev == last'.events
        h == servers'[s].next_action_handle
        delay == NextUpdateDelay(servers'[s], now)
        sched == EventsOf(ev, "schedule", s)
    IN  /\ Cardinality(sched) = 1
        /\ \A i \in sched : ev[i] = <<"schedule", s, delay>>
        /\ servers[s].next_action_handle # NULL =>
              /\ Cardinality(EventsOf(ev, "cancel", s)) = 1
              /\ \A c \in EventsOf(ev, "cancel", s) : \A i \in sched : c < i
        /\ h # NULL
        /\ PendingJobsOf(jobs', s) = {h}
        /\ jobs'[h] = [ssid |-> s, at |-> Plus(Dur(now, 0), delay),
                       clb |-> "send_update_sched_job"]

\* the attempt scheduled nothing
NothingScheduled(s) ==
    /\ EventsOf(last'.events, "schedule", s) = {}
    /\ PendingJobsOf(jobs', s) \subseteq PendingJobsOf(jobs, s)
    /\ \A j \in PendingJobsOf(jobs', s) : jobs'[j] = jobs[j]

\* C19 as stated: after every attempt (taken here with its context set up)
\* whose outcome is not Failed the previous job is cancelled and the next
\* Update job is scheduled; after Failed nothing is scheduled.
C19_Original ==
    [][(last'.op \in DriverOps /\ ContextReady(last'.events, last'.ssid))
       => IF last'.rv # ANJAY_REGISTRATION_FAILED
          THEN NextUpdateScheduled(last'.ssid)
          ELSE NothingScheduled(last'.ssid)]_vars

\* C19 amended: after an attempt whose outcome is Success the driver has
\* cancelled the previous job of the server and scheduled the next Update
\* (delay = remaining lifetime - margin, at least 1 s); after any other
\* outcome - NeedsRegistration, Forbidden or Failed - it has scheduled
\* nothing, and it has left the pending job alone unless the attempt
\* failed in scheduling the next Update, which leaves no job pending.
C19_RescheduleAfterSuccessOnly ==
    [][last'.op \in DriverOps
       => LET s == last'.ssid
          IN  IF last'.rv = ANJAY_REGISTRATION_SUCCESS
              THEN NextUpdateScheduled(s)
              ELSE /\ NothingScheduled(s)
                   /\ IF ScheduleFailed(last'.events, s)
                      THEN /\ last'.rv = ANJAY_REGISTRATION_FAILED
                           /\ PendingJobsOf(jobs', s) = {}
                      ELSE /\ jobs' = jobs
                           /\ servers'[s].next_action_handle =
                                 servers[s].next_action_handle]_vars

\* a successful Update on UDP replaced the pending job by one due after
\* lifetime - margin, more than the one-second floor
C19_Witness ==
    /\ last.op = "_anjay_server_registration_update"
    /\ last.rv = ANJAY_UPDATE_SUCCESS
    /\ EventsOf(last.events, "cancel", last.ssid) # {}
    /\ servers[last.ssid].primary_conn_type = ANJAY_CONNECTION_UDP
    /\ \E i \in EventsOf(last.events, "schedule", last.ssid) :
          /\ last.events[i][3] = NextUpdateDelay(servers[last.ssid], now)
          /\ Before(Dur(1, 0), last.events[i][3])

\* ------------------------------------------------------------------------
\* Properties of De-register and of the Update job
\* ------------------------------------------------------------------------
EventSet(events) == {events[i] : i \in 1..Len(events)}

\* C16: _anjay_server_deregister returns success without sending a
\* De-register when no primary transport is set or the server stream cannot
\* be bound; otherwise it binds the stream of the primary transport, sends
\* exactly one De-register, releases the stream and returns the result of
\* the exchange.
C16_DeregisterOrSkip ==
    [][\A s \in SSIDs :
        (/\ last'.op = "_anjay_server_deactivate"
         /\ last'.ssid = s
         /\ EventsOf(last'.events, "deregister_result", s) # {})
        => LET ev == last'.events
               primary == servers[s].primary_conn_type
               bind == EventsOf(ev, "bind_stream", s)
               sent == EventsOf(ev, "Deregister", s)
               released == EventsOf(ev, "release_stream", s)
               returned == EventsOf(ev, "deregister_result", s)
           IN  /\ Cardinality(returned) = 1
               /\ IF primary = ANJAY_CONNECTION_UNSET
                  THEN /\ bind = {} /\ sent = {} /\ released = {}
                       /\ <<"deregister_result", s, 0>> \in EventSet(ev)
                  ELSE IF <<"bind_stream", s, primary, FALSE>> \in EventSet(ev)
                  THEN /\ Cardinality(bind) = 1 /\ sent = {} /\ released = {}
                       /\ <<"deregister_result", s, 0>> \in EventSet(ev)
                  ELSE /\ \E b \in bind, d \in sent, r \in released,
                             x \in returned :
                             /\ bind = {b} /\ sent = {d} /\ released = {r}
                             /\ b < d /\ d < r /\ r < x
                             /\ ev[b] = <<"bind_stream", s, primary, TRUE>>
                             /\ ev[x][3] = IF ev[d][3] THEN -1 ELSE 0]_vars

\* the stream of a server with a primary transport could not be bound: no
\* De-register was sent and the call succeeded
C16_Witness ==
    /\ last.op = "_anjay_server_deactivate"
    /\ \E t \in ConnTypes :
          <<"bind_stream", last.ssid, t, FALSE>> \in EventSet(last.events)
    /\ EventsOf(last.events, "Deregister", last.ssid) = {}
    /\ <<"deregister_result", last.ssid, 0>> \in EventSet(last.events)

\* the fired Update job sent an Update that succeeded, and the next Update
\* job could be scheduled
UpdateSucceeded(s) ==
    /\ last'.op = "send_update_sched_job"
    /\ last'.ssid = s
    /\ <<"Update", s, "ok">> \in EventSet(last'.events)
    /\ ~ScheduleFailed(last'.events, s)

\* the job asked for the deactivation of s, with the registration marked as
\* expired beforehand, so that no De-register is sent
DeactivationRequested(s) ==
    /\ <<"deactivate", s, TRUE>> \in EventSet(last'.events)
    /\ Cardinality(EventsOf(last'.events, "deactivate", s)) = 1
    /\ EventsOf(last'.events, "Deregister", s) = {}
    /\ ~servers'[s].active
    /\ servers'[s].expire_time = AVS_TIME_REAL_INVALID
    /\ PendingJobsOf(jobs', s) = {}

\* C20 as stated: when the fired Update job reaches a definitive outcome, a
\* successful Update included, expire_time is set to Invalid and the
\* deactivation of the server is requested.
C20_Original ==
    [][\A s \in SSIDs :
        (IsActive(s) /\ UpdateSucceeded(s)) => DeactivationRequested(s)]_vars

\* C20 amended: the fired Update job marks the registration as expired and
\* requests the deactivation of the server exactly when the refresh of the
\* connections failed and the registration is expired, or the Update attempt
\* of a regular server yielded NeedsRegistration. After a successful Update
\* the server stays Active with a renewed expire_time and its next Update
\* job pending; a Bootstrap server whose refresh succeeded is left alone.
C20_DeactivationOnDefinitiveFailure ==
    [][\A s \in SSIDs :
        (/\ last'.op = "send_update_sched_job"
         /\ last'.ssid = s
         /\ IsActive(s))
        => LET ev == last'.events
               refreshed == <<"refresh", s, TRUE>> \in EventSet(ev)
               needs_registration ==
                   /\ ContextReady(ev, s)
                   /\ \/ EventsOf(ev, "Update", s) = {}
                      \/ <<"Update", s, "rejected">> \in EventSet(ev)
               definitive ==
                   IF refreshed
                   THEN s # ANJAY_SSID_BOOTSTRAP /\ needs_registration
                   ELSE Expired(s)
           IN  /\ IF definitive
                  THEN DeactivationRequested(s)
                  ELSE /\ EventsOf(ev, "deactivate", s) = {}
                       /\ servers'[s].active
               /\ UpdateSucceeded(s) =>
                     /\ servers'[s].active
                     /\ servers'[s].expire_time =
                           Plus(Dur(now, 0), Dur(servers'[s].lifetime_s, 0))
                     /\ Cardinality(PendingJobsOf(jobs', s)) = 1
               /\ (refreshed /\ s = ANJAY_SSID_BOOTSTRAP) =>
                     /\ servers'[s].expire_time = servers[s].expire_time
                     /\ jobs' = sched_pop(Cur, servers[s].next_action_handle).jobs
        ]_vars

\* the server rejected the Update: the job deactivated the server without a
\* De-register
C20_Witness ==
    /\ last.op = "send_update_sched_job"
    /\ <<"Update", last.ssid, "rejected">> \in EventSet(last.events)
    /\ <<"deactivate", last.ssid, TRUE>> \in EventSet(last.events)
    /\ EventsOf(last.events, "Deregister", last.ssid) = {}
    /\ ~servers[last.ssid].active

\* ------------------------------------------------------------------------
\* Retry and expiry of a registration under fair scheduling
\* ------------------------------------------------------------------------
\* a run of the Update job of server s in which the Update context could be
\* set up
UpdateJobRuns(s) ==
    \E j \in JobIds :
        /\ JobDue(j)
        /\ jobs[j].clb = "send_update_sched_job"
        /\ jobs[j].ssid = s
        /\ \E c \in ConnectInputs(s) :
              \E inp \in {i \in UpdateInputs(c) : ~i.ctx_init_fails} :
                  Done("send_update_sched_job", s,
                       send_update_sched_job(sched_pop(Cur, j), s,
                                             offline, inp))
        /\ UNCHANGED <<now, offline, probe>>

\* the Update job of server s is due
UpdateJobDue(s) ==
    \E j \in JobIds :
        /\ JobDue(j)
        /\ jobs[j].clb = "send_update_sched_job"
        /\ jobs[j].ssid = s

LiveNext ==
    \/ Tick
    \/ EnterOffline
    \/ ExitOffline
    \/ Activate
    \/ RescheduleUpdateJob
    \/ SendUpdateSchedJob

\* The servers are activated, the client goes offline and online, time
\* advances, the Update jobs are postponed by the driver's rescheduling and
\* run by the scheduler. Time keeps advancing
\* (WF on Tick), and for every server the scheduler eventually runs an Update
\* job that keeps becoming due, in a run that is not cut short by a failure
\* to allocate the Update context. The latter is SF_vars(UpdateJobRuns(s))
\* with ENABLED <<UpdateJobRuns(s)>>_vars written out as UpdateJobDue(s): a
\* due job can always be run with the context set up.
LiveSpec ==
    /\ Init
    /\ [][LiveNext]_vars
    /\ WF_vars(Tick)
    /\ \A s \in SSIDs : []<>UpdateJobDue(s) => []<><<UpdateJobRuns(s)>>_vars

RegularSSIDs == SSIDs \ {ANJAY_SSID_BOOTSTRAP}

UpdateJobPending(s) ==
    \E j \in PendingJobsOf(jobs, s) : jobs[j].clb = "send_update_sched_job"

\* the last step was a run of the Update job of s whose Update succeeded
UpdateJobSucceeded(s) ==
    /\ last.op = "send_update_sched_job"
    /\ last.ssid = s
    /\ <<"Update", s, "ok">> \in EventSet(last.events)

UpdateJobRan(s) ==
    /\ last'.op = "send_update_sched_job"
    /\ last'.ssid = s
    /\ IsActive(s)

\* the refresh of the connections made by the job failed, or succeeded
RefreshFailed(events, s) == <<"refresh", s, FALSE>> \in EventSet(events)

RefreshSucceeded(events, s) == <<"refresh", s, TRUE>> \in EventSet(events)

\* the Update attempt made by the job returned ANJAY_UPDATE_FAILED: the
\* Update context could not be set up, the exchange ended in an error, or the
\* next Update could not be scheduled after a successful exchange
AttemptFailed(events, s) ==
    \/ EventsOf(events, "ctx_init_failed", s) # {}
    \/ <<"Update", s, "network">> \in EventSet(events)
    \/ <<"Update", s, "other">> \in EventSet(events)
    \/ <<"Update", s, "ok">> \in EventSet(events) /\ ScheduleFailed(events, s)

\* the Update attempt made by the job returned NeedsRegistration
AttemptNeedsRegistration(events, s) ==
    /\ ContextReady(events, s)
    /\ \/ EventsOf(events, "Update", s) = {}
       \/ <<"Update", s, "rejected">> \in EventSet(events)

\* the job scheduled itself again through the retryable primitive, with the
\* scheduler's backoff, replacing whatever next_action_handle referred to
RetryScheduled(s) ==
    LET ev == last'.events
        sched == EventsOf(ev, "schedule", s)
    IN  /\ sched # {}
        /\ \A i \in sched : \A j \in sched : i <= j => ev[j][3] = Dur(1, 0)
        /\ \E j \in PendingJobsOf(jobs', s) :
              /\ PendingJobsOf(jobs', s) = {j}
              /\ servers'[s].next_action_handle = j
              /\ jobs'[j].clb = "send_update_sched_job"
              /\ jobs'[j].at = Plus(Dur(now, 0), Dur(1, 0))

\* C21 as stated: whenever the fired Update job fails - the refresh of the
\* connections fails or the Update outcome is Failed - while the registration
\* is expired, it does not retry but sets expire_time to Invalid and requests
\* the deactivation of the server.
C21_Original ==
    [][\A s \in SSIDs :
        (/\ UpdateJobRan(s)
         /\ Expired(s)
         /\ \/ RefreshFailed(last'.events, s)
            \/ AttemptFailed(last'.events, s))
        => DeactivationRequested(s)]_vars

\* C21 amended: when the refresh of the connections fails while the
\* registration is expired, the job does not retry but sets expire_time to
\* Invalid and requests the deactivation of the server. An Update outcome
\* Failed is answered with a retry whether or not the registration is
\* expired; with an expired registration the outcome is Failed only when the
\* Update context cannot be set up, otherwise it is NeedsRegistration.
C21_NoRetryOnRefreshFailureAfterExpiry ==
    [][\A s \in SSIDs :
        UpdateJobRan(s)
        => LET ev == last'.events
           IN  /\ (RefreshFailed(ev, s) /\ Expired(s)) =>
                     /\ DeactivationRequested(s)
                     /\ EventsOf(ev, "schedule", s) = {}
                     /\ ~ContextReady(ev, s)
               /\ (RefreshSucceeded(ev, s) /\ AttemptFailed(ev, s)) =>
                     /\ EventsOf(ev, "deactivate", s) = {}
                     /\ servers'[s].active
                     /\ ScheduleFailed(ev, s) \/ RetryScheduled(s)
               /\ (RefreshSucceeded(ev, s) /\ AttemptFailed(ev, s)
                     /\ Expired(s)) =>
                     EventsOf(ev, "ctx_init_failed", s) # {}]_vars

\* the refresh failed for a server whose registration had expired: the
\* server was deactivated and no retry is pending
C21_Witness ==
    /\ last.op = "send_update_sched_job"
    /\ RefreshFailed(last.events, last.ssid)
    /\ <<"deactivate", last.ssid, TRUE>> \in EventSet(last.events)
    /\ ~servers[last.ssid].active
    /\ PendingJobsOf(jobs, last.ssid) = {}

\* C22: when the fired Update job ends in a transient failure - the refresh
\* of the connections failed or the Update attempt returned Failed, while the
\* registration is not expired - the job is scheduled again through the
\* retryable primitive (unless the entry cannot be allocated), the server
\* stays Active and expire_time is not invalidated.
C22_TransientFailureIsRetried ==
    [][\A s \in SSIDs :
        (/\ UpdateJobRan(s)
         /\ ~Expired(s)
         /\ \/ RefreshFailed(last'.events, s)
            \/ RefreshSucceeded(last'.events, s)
                  /\ AttemptFailed(last'.events, s))
        => LET ev == last'.events
           IN  /\ servers'[s].active
               /\ EventsOf(ev, "deactivate", s) = {}
               /\ Valid(servers'[s].expire_time)
               /\ <<"Update", s, "ok">> \notin EventSet(ev) =>
                     servers'[s].expire_time = servers[s].expire_time
               /\ IF ScheduleFailed(ev, s)
                  THEN PendingJobsOf(jobs', s) = {}
                  ELSE RetryScheduled(s)]_vars

\* an Update that ended in a network error before the expiry left the
\* server Active with the retry pending
C22_Witness ==
    /\ last.op = "send_update_sched_job"
    /\ <<"Update", last.ssid, "network">> \in EventSet(last.events)
    /\ servers[last.ssid].active
    /\ ~Expired(last.ssid)
    /\ \E j \in PendingJobsOf(jobs, last.ssid) :
          jobs[j].at = Plus(Dur(now, 0), Dur(1, 0))

\* C23: when the Update attempt made by the fired Update job reports
\* NeedsRegistration - no valid primary connection, expired registration or
\* Update rejected by the server - the job sends no Register; it sets
\* expire_time to Invalid, requests the deactivation of the server and
\* schedules no retry.
C23_NeedsRegistrationDeactivates ==
    [][\A s \in RegularSSIDs :
        (/\ UpdateJobRan(s)
         /\ RefreshSucceeded(last'.events, s)
         /\ AttemptNeedsRegistration(last'.events, s))
        => LET ev == last'.events
           IN  /\ EventsOf(ev, "Register", s) = {}
               /\ EventsOf(ev, "schedule", s) = {}
               /\ EventsOf(ev, "flush", s) = {}
               /\ DeactivationRequested(s)
               /\ EventsOf(ev, "Update", s) = {} =>
                     (Expired(s) \/ ~PrimaryValid(s))]_vars

\* the registration had expired when the job fired with the connections up:
\* no Update and no Register was sent and the server was deactivated
C23_Witness ==
    /\ last.op = "send_update_sched_job"
    /\ RefreshSucceeded(last.events, last.ssid)
    /\ ContextReady(last.events, last.ssid)
    /\ NoTraffic(last.events, last.ssid)
    /\ <<"deactivate", last.ssid, TRUE>> \in EventSet(last.events)
    /\ ~servers[last.ssid].active

\* ------------------------------------------------------------------------
\* Outcomes of the Update and Register exchanges within one attempt
\* ------------------------------------------------------------------------
\* the step is a call of one of the entry points of the driver for server s
\* in which the Update context was set up
AttemptMade(s) ==
    /\ last'.op \in DriverOps
    /\ last'.ssid = s
    /\ ContextReady(last'.events, s)

\* some transport of s has an online socket
SomeSocketOnline(s) ==
    \E t \in ConnTypes : servers[s].conn[t].socket = "online"

\* C24: when the server rejects an Update, the Update outcome is
\* NeedsRegistration and expire_time is Invalid from then on (until a
\* Register of the same attempt succeeds); the connection is not suspended
\* and the Update is not sent a second time in the attempt.
C24_RejectedUpdateInvalidatesExpiry ==
    [][\A s \in RegularSSIDs :
        (AttemptMade(s) /\ <<"Update", s, "rejected">> \in EventSet(last'.events))
        => LET ev == last'.events
               regs == EventsOf(ev, "Register", s)
           IN  /\ Cardinality(EventsOf(ev, "Update", s)) = 1
               /\ EventsOf(ev, "suspend", s) = {}
               /\ servers'[s].conn = servers[s].conn
               /\ servers'[s].primary_conn_type = servers[s].primary_conn_type
               /\ PrimaryValid(s) /\ ~Expired(s)
               /\ IF last'.op = "_anjay_server_registration_update"
                  THEN /\ last'.rv = ANJAY_UPDATE_NEEDS_REGISTRATION
                       /\ regs = {}
                       /\ servers'[s].expire_time = AVS_TIME_REAL_INVALID
                       /\ jobs' = jobs
                  ELSE /\ \E u \in EventsOf(ev, "Update", s), r \in regs :
                             regs = {r} /\ u < r
                       /\ <<"Register", s, "ok">> \notin EventSet(ev) =>
                             servers'[s].expire_time = AVS_TIME_REAL_INVALID
                       /\ <<"Register", s, "ok">> \in EventSet(ev) =>
                             servers'[s].expire_time =
                                 Plus(Dur(now, 0),
                                      Dur(servers'[s].lifetime_s, 0))]_vars

\* an Update attempt on a valid connection was rejected: NeedsRegistration,
\* expire_time Invalid, the primary socket still online
C24_Witness ==
    /\ last.op = "_anjay_server_registration_update"
    /\ <<"Update", last.ssid, "rejected">> \in EventSet(last.events)
    /\ last.rv = ANJAY_UPDATE_NEEDS_REGISTRATION
    /\ servers[last.ssid].expire_time = AVS_TIME_REAL_INVALID
    /\ PrimaryValid(last.ssid)

\* the Update exchange of the attempt ended in an error other than a
\* rejection
UpdateError(events, s) ==
    \/ <<"Update", s, "network">> \in EventSet(events)
    \/ <<"Update", s, "other">> \in EventSet(events)

\* the attempt ended Failed, leaving expire_time, the pending job and the
\* primary transport as they were, with no Register and no flush
FailedWithoutSideEffects(s) ==
    /\ last'.rv = ANJAY_UPDATE_FAILED
    /\ Cardinality(EventsOf(last'.events, "Update", s)) = 1
    /\ EventsOf(last'.events, "Register", s) = {}
    /\ EventsOf(last'.events, "flush", s) = {}
    /\ EventsOf(last'.events, "schedule", s) = {}
    /\ EventsOf(last'.events, "cancel", s) = {}
    /\ jobs' = jobs
    /\ servers'[s].next_action_handle = servers[s].next_action_handle
    /\ servers'[s].expire_time = servers[s].expire_time
    /\ servers'[s].primary_conn_type = servers[s].primary_conn_type

\* the socket of the primary transport of s was closed and retained, the
\* other transports were left alone
PrimarySuspended(s) ==
    LET primary == servers[s].primary_conn_type
        sus == EventsOf(last'.events, "suspend", s)
    IN  /\ \E i \in sus : sus = {i} /\ last'.events[i] = <<"suspend", s, primary>>
        /\ servers'[s].conn[primary].socket = "offline"
        /\ servers'[s].conn[primary].mode = servers[s].conn[primary].mode
        /\ \A t \in ConnTypes \ {primary} :
              servers'[s].conn[t] = servers[s].conn[t]

\* C25 as stated: when an Update exchange ends in any error other than a
\* rejection, the result is Failed and the primary connection is suspended,
\* with no job scheduled and expire_time unchanged.
C25_Original ==
    [][\A s \in RegularSSIDs :
        (AttemptMade(s) /\ UpdateError(last'.events, s))
        => (FailedWithoutSideEffects(s) /\ PrimarySuspended(s))]_vars

\* C25 amended: when an Update exchange ends in a network error, the result
\* is Failed and the primary transport's connection is suspended - its
\* socket closed but retained - with no job scheduled by the driver and
\* expire_time unchanged; after any other error that is not a rejection the
\* result is Failed as well, but no connection is suspended.
C25_NetworkErrorSuspendsPrimary ==
    [][\A s \in RegularSSIDs :
        (AttemptMade(s) /\ UpdateError(last'.events, s))
        => /\ FailedWithoutSideEffects(s)
           /\ IF <<"Update", s, "network">> \in EventSet(last'.events)
              THEN PrimarySuspended(s)
              ELSE /\ EventsOf(last'.events, "suspend", s) = {}
                   /\ servers'[s].conn = servers[s].conn]_vars

\* an Update that met a network error: Failed, the primary socket offline,
\* the registration still running
C25_Witness ==
    /\ last.op \in DriverOps
    /\ <<"Update", last.ssid, "network">> \in EventSet(last.events)
    /\ last.rv = ANJAY_UPDATE_FAILED
    /\ servers[last.ssid].primary_conn_type \in ConnTypes
    /\ servers[last.ssid].conn[servers[last.ssid].primary_conn_type].socket
          = "offline"
    /\ ~Expired(last.ssid)

\* C26: a Register is sent only by an attempt classified NeedsRegistration,
\* and only over a valid primary connection, one being selected first when
\* none is valid; when no connection can be set up the attempt ends Failed
\* without a Register, and an Update that ended Failed is never followed by
\* a Register in the same attempt.
C26_RegisterOnlyWhenNeededAndConnected ==
    [][\A s \in RegularSSIDs :
        AttemptMade(s)
        => LET ev == last'.events
               regs == EventsOf(ev, "Register", s)
               primary == servers'[s].primary_conn_type
           IN  /\ regs # {} =>
                     /\ last'.op = "_anjay_server_ensure_valid_registration"
                     /\ Cardinality(regs) = 1
                     /\ \/ ~PrimaryValid(s)
                        \/ Expired(s)
                        \/ \E u \in EventsOf(ev, "Update", s), r \in regs :
                              u < r /\ ev[u] = <<"Update", s, "rejected">>
                     /\ ~UpdateError(ev, s)
                     /\ <<"Update", s, "ok">> \notin EventSet(ev)
                     /\ primary \in ConnTypes
                     /\ servers'[s].conn[primary].socket = "online"
                     /\ PrimaryValid(s) =>
                           primary = servers[s].primary_conn_type
               /\ (/\ last'.op = "_anjay_server_ensure_valid_registration"
                   /\ ~PrimaryValid(s)) =>
                     IF SomeSocketOnline(s)
                     THEN regs # {}
                     ELSE /\ regs = {}
                          /\ last'.rv = ANJAY_REGISTRATION_FAILED
                          /\ EventsOf(ev, "bootstrap_notify", s) = {}
                          /\ jobs' = jobs
               /\ UpdateError(ev, s) => regs = {}]_vars

\* no socket of the server was online: the attempt ended Failed and sent no
\* Register
C26_Witness ==
    /\ last.op = "_anjay_server_ensure_valid_registration"
    /\ ContextReady(last.events, last.ssid)
    /\ last.rv = ANJAY_REGISTRATION_FAILED
    /\ NoTraffic(last.events, last.ssid)
    /\ servers[last.ssid].active
    /\ \A t \in ConnTypes : servers[last.ssid].conn[t].socket # "online"

\* C27: the bootstrap-availability hook is called exactly when a Register
\* succeeds, after it, and the attempt reports Success whatever the hook
\* returns; a failing flush of the notifications does not change the outcome
\* either: the attempt reports Success and the next Update is scheduled,
\* unless scheduling it fails.
C27_SideOperationsDoNotEscalate ==
    [][\A s \in RegularSSIDs :
        AttemptMade(s)
        => LET ev == last'.events
               hooks == EventsOf(ev, "bootstrap_notify", s)
               registered == <<"Register", s, "ok">> \in EventSet(ev)
               side_failed ==
                   \/ EventsOf(ev, "bootstrap_notify_failed", s) # {}
                   \/ EventsOf(ev, "flush_failed", s) # {}
               outcome == IF ScheduleFailed(ev, s)
                          THEN ANJAY_REGISTRATION_FAILED
                          ELSE ANJAY_REGISTRATION_SUCCESS
           IN  /\ Cardinality(hooks) = IF registered THEN 1 ELSE 0
               /\ \A h \in hooks : \A r \in EventsOf(ev, "Register", s) : r < h
               /\ registered => last'.rv = outcome
               /\ side_failed =>
                     /\ last'.rv = outcome
                     /\ ~ScheduleFailed(ev, s) => NextUpdateScheduled(s)]_vars

\* a Register succeeded, the hook and the flush failed, and the attempt
\* reported Success
C27_Witness ==
    /\ last.op = "_anjay_server_ensure_valid_registration"
    /\ <<"Register", last.ssid, "ok">> \in EventSet(last.events)
    /\ EventsOf(last.events, "bootstrap_notify_failed", last.ssid) # {}
    /\ EventsOf(last.events, "flush_failed", last.ssid) # {}
    /\ last.rv = ANJAY_REGISTRATION_SUCCESS

\* ------------------------------------------------------------------------
\* The server stream during De-register
\* ------------------------------------------------------------------------
\* the positions at which the stream of server s was acquired
StreamAcquired(events, s) ==
    {i \in EventsOf(events, "bind_stream", s) : events[i][4]}

\* C30: whenever _anjay_server_deregister acquires the server stream it
\* releases it exactly once before it returns, after the De-register exchange
\* and whether that succeeded or failed; it never releases a stream it did
\* not acquire.
C30_StreamReleasedExactlyOnce ==
    \A s \in SSIDs :
        LET ev == last.events
            acquired == StreamAcquired(ev, s)
            released == EventsOf(ev, "release_stream", s)
            returned == EventsOf(ev, "deregister_result", s)
        IN  /\ Cardinality(acquired) <= 1
            /\ Cardinality(released) = Cardinality(acquired)
            /\ \A a \in acquired : \A r \in released :
                  /\ a < r
                  /\ \E d \in EventsOf(ev, "Deregister", s) : a < d /\ d < r
                  /\ \E x \in returned : r < x
            /\ acquired # {} => Cardinality(returned) = 1

\* the De-register exchange failed and the stream was released all the same
C30_Witness ==
    /\ last.op = "_anjay_server_deactivate"
    /\ <<"Deregister", last.ssid, TRUE>> \in EventSet(last.events)
    /\ <<"deregister_result", last.ssid, -1>> \in EventSet(last.events)
    /\ StreamAcquired(last.events, last.ssid) # {}
    /\ EventsOf(last.events, "release_stream", last.ssid) # {}

\* ------------------------------------------------------------------------
\* Marking the registration as expired
\* ------------------------------------------------------------------------
\* the values expire_time of s had when its deactivation was asked for
ExpireTimeNoted(events, s) ==
    {events[i][3] : i \in EventsOf(events, "expire_time", s)}

\* the attempt found the registration stale: the Update was rejected or the
\* primary connection was not valid, and no Register succeeded afterwards
FoundStale(s) ==
    /\ AttemptMade(s)
    /\ \/ <<"Update", s, "rejected">> \in EventSet(last'.events)
       \/ ~PrimaryValid(s)
    /\ <<"Register", s, "ok">> \notin EventSet(last'.events)

\* _anjay_schedule_reregister was called for s
ReregisterForced(s) ==
    /\ last'.op = "_anjay_schedule_reregister"
    /\ last'.ssid = s

\* _anjay_schedule_socket_update was called for the Active server s
SocketUpdateForced(s) ==
    /\ last'.op = "_anjay_schedule_socket_update"
    /\ last'.ssid = s
    /\ IsActive(s)

\* C28 as stated: whenever the registration becomes known stale - Update
\* rejected, primary connection missing or lost, deregistration forced by
\* _anjay_schedule_reregister or _anjay_schedule_socket_update - expire_time
\* equals the Invalid sentinel afterwards.
C28_Original ==
    [][\A s \in SSIDs :
        /\ FoundStale(s) => servers'[s].expire_time = AVS_TIME_REAL_INVALID
        /\ ReregisterForced(s) =>
              ExpireTimeNoted(last'.events, s) = {AVS_TIME_REAL_INVALID}
        /\ SocketUpdateForced(s) =>
              /\ ExpireTimeNoted(last'.events, s) = {AVS_TIME_REAL_INVALID}
              /\ servers'[s].expire_time = AVS_TIME_REAL_INVALID]_vars

\* C28 amended: after a rejected Update, after an attempt that found the
\* primary connection not valid, and when _anjay_schedule_reregister forces
\* the deregistration, expire_time equals the Invalid sentinel (until a
\* Register succeeds). _anjay_schedule_socket_update does not write the
\* sentinel: it stores the lifetime -1, so that expire_time is the valid
\* instant one second before the current time; the registration counts as
\* expired in every one of these cases.
C28_StaleRegistrationIsExpired ==
    [][\A s \in SSIDs :
        /\ FoundStale(s) =>
              /\ servers'[s].expire_time = AVS_TIME_REAL_INVALID
              /\ anjay_server_registration_expired(servers'[s].expire_time,
                                                   NowReal)
        /\ ReregisterForced(s) =>
              ExpireTimeNoted(last'.events, s) = {AVS_TIME_REAL_INVALID}
        /\ SocketUpdateForced(s) =>
              /\ ExpireTimeNoted(last'.events, s) = {Dur(now - 1, 0)}
              /\ servers'[s].active
              /\ servers'[s].expire_time = Dur(now - 1, 0)
              /\ servers'[s].lifetime_s = -1
              /\ anjay_server_registration_expired(servers'[s].expire_time,
                                                   NowReal)]_vars

\* a forced re-registration: the sentinel was written before the
\* deactivation, which found the registration expired
C28_Witness ==
    /\ last.op = "_anjay_schedule_reregister"
    /\ ExpireTimeNoted(last.events, last.ssid) = {AVS_TIME_REAL_INVALID}
    /\ <<"deactivate", last.ssid, TRUE>> \in EventSet(last.events)
    /\ ~servers[last.ssid].active

\* C29: every deactivation requested for an Active server by the fired
\* Update job, by _anjay_schedule_reregister and by
\* _anjay_schedule_socket_update is requested with the registration already
\* marked as expired, so that _anjay_server_registration_expired holds at the
\* request and no De-register is sent for it.
C29_DeactivationRequestedAfterExpiry ==
    [][\A s \in SSIDs :
        LET ev == last'.events
            requests == EventsOf(ev, "deactivate", s)
                           \cup EventsOf(ev, "disable_server", s)
            marks == EventsOf(ev, "expire_time", s)
        IN  (/\ last'.ssid = s
             /\ last'.op \in {"send_update_sched_job",
                              "_anjay_schedule_reregister",
                              "_anjay_schedule_socket_update"})
            => /\ \A r \in requests : ev[r][3]
               /\ EventsOf(ev, "Deregister", s) = {}
               /\ EventsOf(ev, "bind_stream", s) = {}
               /\ last'.op # "send_update_sched_job" =>
                     /\ \A r \in requests : \E m \in marks : m < r
                     /\ IsActive(s) /\ EventsOf(ev, "disable_failed", s) = {}
                           => Cardinality(requests) = 1]_vars

\* the socket update of a server whose registration was still running asked
\* for its deactivation with the registration marked as expired
C29_Witness ==
    /\ last.op = "_anjay_schedule_socket_update"
    /\ <<"disable_server", last.ssid, TRUE>> \in EventSet(last.events)
    /\ servers[last.ssid].active
    /\ servers[last.ssid].lifetime_s = -1
    /\ servers[last.ssid].next_action_handle # NULL

\* ------------------------------------------------------------------------
\* The Update job of an entry that is not Active
\* ------------------------------------------------------------------------
\* send_update_sched_job() is handed an SSID, not an entry: this is a firing
\* whose SSID names no Active entry, either an Inactive one or none at all
SendUpdateSchedJobNoActiveEntry ==
    \E ssid \in SSIDs \cup {UNKNOWN_SSID}, up \in SUBSET ConnTypes :
        /\ ~IsActive(ssid)
        /\ \E inp \in UpdateInputs([NoInput EXCEPT !.up = up]) :
              Done("send_update_sched_job", ssid,
                   send_update_sched_job(Cur, ssid, offline, inp))
        /\ UNCHANGED <<now, offline, probe>>

\* The registration machine with firings of the Update job that find their
\* entry gone.
StaleJobNext ==
    \/ Tick
    \/ EnterOffline
    \/ ExitOffline
    \/ Activate
    \/ RescheduleUpdateJob
    \/ Deactivate
    \/ SendUpdateSchedJob
    \/ SendUpdateSchedJobNoActiveEntry

StaleJobSpec == Init /\ [][StaleJobNext]_vars

\* C35: when the Update job fires for an SSID with no Active entry, it
\* refreshes nothing, exchanges no message, schedules nothing and leaves the
\* servers and the job queue as the scheduler handed them over.
C35_NoActiveEntryNoEffect ==
    [][(last'.op = "send_update_sched_job" /\ ~IsActive(last'.ssid))
        => /\ last'.events = <<>>
           /\ \/ UNCHANGED <<servers, jobs>>
              \/ \E j \in JobIds :
                    /\ JobDue(j)
                    /\ servers' = sched_pop(Cur, j).servers
                    /\ jobs' = sched_pop(Cur, j).jobs]_vars

\* the job fired for an Inactive entry while another server was Active with
\* its own job pending, and nothing was touched
C35_Witness ==
    /\ last.op = "send_update_sched_job"
    /\ last.ssid \in SSIDs
    /\ ~IsActive(last.ssid)
    /\ last.events = <<>>
    /\ \E s \in SSIDs : IsActive(s) /\ PendingJobsOf(jobs, s) # {}

\* C36: the fired Update job never runs a registration action for the
\* Bootstrap Server: its run sets up no Update context and sends neither
\* Update nor Register; after a successful refresh the run ends there, with
\* no message, no job scheduled or cancelled and no deactivation.
C36_BootstrapJobNeverRegisters ==
    [][(/\ last'.op = "send_update_sched_job"
        /\ last'.ssid = ANJAY_SSID_BOOTSTRAP
        /\ IsActive(ANJAY_SSID_BOOTSTRAP))
        => LET ev == last'.events
               s == ANJAY_SSID_BOOTSTRAP
           IN  /\ \A k \in {"ctx_init", "ctx_init_failed", "Update", "Register",
                            "bind_stream", "flush"} : EventsOf(ev, k, s) = {}
               /\ RefreshSucceeded(ev, s) =>
                     /\ Len(ev) = 1
                     /\ servers'[s].active
                     /\ servers'[s].next_action_handle = NULL
                     /\ PendingJobsOf(jobs', s) = {}
                     /\ servers'[s].expire_time = servers[s].expire_time]_vars

\* the job of the Active Bootstrap Server fired, its refresh succeeded and
\* the run ended with nothing pending
C36_Witness ==
    /\ last.op = "send_update_sched_job"
    /\ last.ssid = ANJAY_SSID_BOOTSTRAP
    /\ RefreshSucceeded(last.events, ANJAY_SSID_BOOTSTRAP)
    /\ IsActive(ANJAY_SSID_BOOTSTRAP)
    /\ PendingJobsOf(jobs, ANJAY_SSID_BOOTSTRAP) = {}

\* ------------------------------------------------------------------------
\* Lookups in the registry
\* ------------------------------------------------------------------------
\* A socket is known by the connection it was created for; a socket of
\* UNKNOWN_SSID belongs to no entry of the registry.
SocketOf(ssid, conn_type) == <<ssid, conn_type>>

Sockets ==
    {SocketOf(s, t) : s \in SSIDs \cup {UNKNOWN_SSID}, t \in ConnTypes}

\* a callback that compares the socket the connection holds, online or not
find_by_udp_socket_clb_any_state(st, server, socket) ==
    /\ st.servers[server].conn[ANJAY_CONNECTION_UDP].socket # "none"
    /\ SocketOf(server, ANJAY_CONNECTION_UDP) = socket

\* find_by_udp_socket_clb(): the online UDP socket of the entry is the socket
\* looked for
find_by_udp_socket_clb(st, server, socket) ==
    /\ anjay_connection_get_online_socket(st, server, ANJAY_CONNECTION_UDP)
    /\ SocketOf(server, ANJAY_CONNECTION_UDP) = socket

\* _anjay_servers_find_by_udp_socket(): the first Active entry, in list
\* order, the callback stops at; NULL when it stops at none
anjay_servers_find_by_udp_socket(st, socket) ==
    LET hits == {i \in 1..Len(ServerList) :
                    /\ st.servers[ServerList[i]].active
                    /\ find_by_udp_socket_clb(st, ServerList[i], socket)}
    IN  IF hits = {}
        THEN Ret(st, NULL)
        ELSE Ret(st, ServerList[CHOOSE i \in hits : \A k \in hits : i <= k])

ServersFindActive ==
    \E ssid \in SSIDs \cup {UNKNOWN_SSID} :
        /\ Done("_anjay_servers_find_active", ssid,
                Ret(Cur, anjay_servers_find_active(Cur, ssid)))
        /\ UNCHANGED <<now, offline, probe>>

ServersFindByUdpSocket ==
    \E socket \in Sockets :
        /\ Done("_anjay_servers_find_by_udp_socket", ANJAY_SSID_ANY,
                Event(anjay_servers_find_by_udp_socket(Cur, socket),
                      <<"socket", socket[1], socket[2]>>))
        /\ UNCHANGED <<now, offline, probe>>

\* The registry with servers activated, refreshed, suspended and deactivated
\* between the lookups.
LookupNext ==
    \/ EnterOffline
    \/ ExitOffline
    \/ Activate
    \/ ActiveServerRefresh
    \/ Deactivate
    \/ ServersFindActive
    \/ ServersFindByUdpSocket

LookupSpec == Init /\ [][LookupNext]_vars

\* the socket the last lookup was given
SocketLookedFor(events) == SocketOf(events[1][2], events[1][3])

\* C34: _anjay_servers_find_active(ssid) returns the entry with that SSID
\* exactly when it is Active, and NULL for an Inactive or unknown one;
\* _anjay_servers_find_by_udp_socket(socket) returns an entry exactly when
\* that entry is Active and the socket is its UDP socket and online, and NULL
\* for a suspended socket, a socket of another transport and a socket of no
\* entry; neither changes the servers or the job queue.
C34_LookupsFindActiveOnly ==
    [][/\ last'.op = "_anjay_servers_find_active" =>
            /\ UNCHANGED <<servers, jobs>>
            /\ last'.events = <<>>
            /\ IF IsActive(last'.ssid)
               THEN last'.rv = last'.ssid
               ELSE last'.rv = NULL
       /\ last'.op = "_anjay_servers_find_by_udp_socket" =>
            LET socket == SocketLookedFor(last'.events)
                owners == {s \in SSIDs :
                             /\ servers[s].active
                             /\ servers[s].conn[ANJAY_CONNECTION_UDP].socket
                                    = "online"
                             /\ socket = SocketOf(s, ANJAY_CONNECTION_UDP)}
            IN  /\ UNCHANGED <<servers, jobs>>
                /\ Len(last'.events) = 1
                /\ IF owners = {}
                   THEN last'.rv = NULL
                   ELSE last'.rv \in owners]_vars

\* the lookup by the UDP socket of an Active server found nothing, because
\* the socket was suspended
C34_Witness ==
    /\ last.op = "_anjay_servers_find_by_udp_socket"
    /\ last.rv = NULL
    /\ \E s \in SSIDs :
          /\ SocketLookedFor(last.events) = SocketOf(s, ANJAY_CONNECTION_UDP)
          /\ servers[s].active
          /\ servers[s].conn[ANJAY_CONNECTION_UDP].socket = "offline"

\* ------------------------------------------------------------------------
\* Forced reconnection
\* ------------------------------------------------------------------------
\* _anjay_schedule_reload_server(): the reload of the server becomes its
\* next action, due at once, in place of whatever was pending for it
anjay_schedule_reload_server(st, ssid, alloc_fails) ==
    sched_retryable(anjay_sched_del(st, ssid), ssid, AVS_TIME_DURATION_ZERO,
                    "reload_server_by_ssid_job", alloc_fails)

\* a reconnect that suspends the primary connection only
anjay_schedule_server_reconnect_primary_only(st, ssid, alloc_fails) ==
    anjay_schedule_reload_server(
        anjay_connection_suspend(st, ssid, st.servers[ssid].primary_conn_type),
        ssid, alloc_fails)

anjay_schedule_server_reconnect(st, ssid, alloc_fails) ==
    anjay_schedule_reload_server(
        anjay_connection_suspend(st, ssid, ANJAY_CONNECTION_UNSET),
        ssid, alloc_fails)

\* _anjay_schedule_server_reconnect() for an Active server
ScheduleServerReconnect ==
    \E ssid \in SSIDs, af \in BOOLEAN :
        /\ servers[ssid].active
        /\ Done("_anjay_schedule_server_reconnect", ssid,
                anjay_schedule_server_reconnect(Cur, ssid, af))
        /\ UNCHANGED <<now, offline, probe>>

\* The registration machine with forced reconnections: servers are
\* activated, registered, updated and refreshed, and their connections are
\* suspended for a reload.
ReconnectNext ==
    \/ Tick
    \/ Activate
    \/ ActiveServerRefresh
    \/ ServerRegistrationUpdate
    \/ RescheduleUpdateJob
    \/ ScheduleServerReconnect
    \/ Deactivate

ReconnectSpec == Init /\ [][ReconnectNext]_vars

\* C31: _anjay_schedule_server_reconnect suspends every transport of the
\* server, not only the primary one, and schedules the reload of the server
\* as its next action; the entry stays Active, its registration information
\* and primary transport are as before, each connection keeps everything
\* but the open socket, and no other entry is touched.
C31_ReconnectSuspendsAllAndKeepsRegistration ==
    [][last'.op = "_anjay_schedule_server_reconnect" =>
        LET s == last'.ssid
            ev == last'.events
        IN  /\ ev[1] = <<"suspend", s, ANJAY_CONNECTION_UNSET>>
            /\ \A t \in ConnTypes :
                  /\ servers'[s].conn[t].socket =
                        IF servers[s].conn[t].socket = "online"
                        THEN "offline"
                        ELSE servers[s].conn[t].socket
                  /\ servers'[s].conn[t] =
                        [servers[s].conn[t] EXCEPT
                            !.socket = servers'[s].conn[t].socket]
            /\ servers'[s] =
                  [servers[s] EXCEPT
                      !.conn = servers'[s].conn,
                      !.next_action_handle = servers'[s].next_action_handle]
            /\ servers'[s].active
            /\ \A o \in SSIDs \ {s} : servers'[o] = servers[o]
            /\ EventsOf(ev, "deactivate", s) = {}
            /\ IF last'.rv = 0
               THEN LET h == servers'[s].next_action_handle
                    IN  /\ h # NULL
                        /\ PendingJobsOf(jobs', s) = {h}
                        /\ jobs'[h].clb = "reload_server_by_ssid_job"
                        /\ jobs'[h].at = NowReal
               ELSE /\ ScheduleFailed(ev, s)
                    /\ PendingJobsOf(jobs', s) = {}]_vars

\* the reconnect of a registered server with both of its transports online:
\* both sockets are suspended, the reload is pending and the registration
\* still runs
C31_Witness ==
    /\ last.op = "_anjay_schedule_server_reconnect"
    /\ last.rv = 0
    /\ \A t \in ConnTypes : servers[last.ssid].conn[t].socket = "offline"
    /\ servers[last.ssid].active
    /\ servers[last.ssid].primary_conn_type \in ConnTypes
    /\ ~Expired(last.ssid)
    /\ Cardinality(EventsOf(last.events, "cancel", last.ssid)) = 1

\* ------------------------------------------------------------------------
\* Creating, binding and connecting a socket
\* ------------------------------------------------------------------------
ENOMEM == 12

EPROTO == 71

EPROTONOSUPPORT == 93

\* a port is held as a number by the socket and as a decimal string by the
\* bind configuration and the port buffer
DecimalDigits == <<"0", "1", "2", "3", "4", "5", "6", "7", "8", "9">>

RECURSIVE uint_to_string(_)
\* "%" PRIu16 of avs_simple_snprintf(), and the string
\* avs_net_socket_get_local_port() writes
uint_to_string(n) ==
    IF n < 10
    THEN <<DecimalDigits[n + 1]>>
    ELSE Append(uint_to_string(n \div 10), DecimalDigits[(n % 10) + 1])

RECURSIVE string_to_uint(_)
\* the port number a bind to a decimal port string asks for
string_to_uint(s) ==
    IF s = <<>>
    THEN 0
    ELSE 10 * string_to_uint(SubSeq(s, 1, Len(s) - 1))
            + (CHOOSE d \in 0..9 : DecimalDigits[d + 1] = s[Len(s)])

\* the socket *out points to; NoSocket stands for NULL
NoSocket == [created |-> FALSE, local_port |-> 0, connected |-> FALSE]

\* The state the socket functions work on: the socket, the port buffer the
\* bind configuration points to, the return value, the calls made, and the
\* sockets created and destroyed so far.
SocketStateOf(buffer) ==
    [socket |-> NoSocket, buffer |-> buffer, rv |-> 0, events |-> <<>>,
     created |-> 0, destroyed |-> 0]

\* avs_net_socket_bind(): an empty port asks for an ephemeral one; a port in
\* use cannot be bound
avs_net_socket_bind(ss, local_addr, port, net) ==
    LET ok == IF port = <<>>
              THEN ~net.ephemeral_fails
              ELSE string_to_uint(port) \notin net.busy
        tried == Event(ss, <<"bind", local_addr, port, ok>>)
    IN  IF ok
        THEN Ret([tried EXCEPT !.socket.local_port =
                     IF port = <<>> THEN net.ephemeral
                     ELSE string_to_uint(port)], 0)
        ELSE Ret(tried, -1)

\* bind_socket(): the local address follows the address family; with a
\* static port preference that port is bound; without one, and with a last
\* known port in the buffer, that port is tried, and when it cannot be bound
\* or none is known, an ephemeral port is bound if there is a local address
bind_socket(ss, bind_conf, net) ==
    LET local_addr == IF ~bind_conf.present THEN ""
                      ELSE IF bind_conf.family = "AVS_NET_AF_INET4" THEN "0.0.0.0"
                      ELSE IF bind_conf.family = "AVS_NET_AF_INET6" THEN "::"
                      ELSE ""
        static_preferred_port ==
            IF bind_conf.present /\ bind_conf.static_port_preference # 0
            THEN uint_to_string(bind_conf.static_port_preference)
            ELSE <<>>
        try_last == /\ bind_conf.present
                    /\ bind_conf.static_port_preference = 0
                    /\ bind_conf.has_buffer
                    /\ ss.buffer # <<>>
        tried == IF try_last
                 THEN avs_net_socket_bind(ss, local_addr, ss.buffer, net)
                 ELSE Ret(ss, -1)
    IN  IF try_last /\ tried.rv = 0
        THEN Ret(tried, 0)
        ELSE IF local_addr # "" \/ static_preferred_port # <<>>
             THEN LET b == avs_net_socket_bind(tried, local_addr,
                                               static_preferred_port, net)
                  IN  IF b.rv # 0 THEN Ret(b, -1) ELSE Ret(b, 0)
             ELSE Ret(tried, 0)

\* avs_net_socket_connect(): an unbound socket gets an ephemeral port from
\* the system when it connects
avs_net_socket_connect(ss, net) ==
    IF net.connect_fails
    THEN Ret(Event(ss, <<"connect", FALSE>>), -1)
    ELSE Ret(Event([ss EXCEPT !.socket.connected = TRUE,
                              !.socket.local_port =
                                  IF @ = 0 THEN net.ephemeral ELSE @],
                   <<"connect", TRUE>>), 0)

\* avs_net_socket_get_local_port() into the port buffer
avs_net_socket_get_local_port(ss, net) ==
    IF net.get_local_port_fails
    THEN Ret(Event(ss, <<"get_local_port", FALSE>>), -1)
    ELSE Ret(Event([ss EXCEPT !.buffer = uint_to_string(ss.socket.local_port)],
                   <<"get_local_port", TRUE>>), 0)

\* a connect that reports the failure to read the port back
anjay_bind_and_connect_socket_strict(ss, bind_conf, net) ==
    LET bound == bind_socket(ss, bind_conf, net)
        connected == avs_net_socket_connect(bound, net)
        port == avs_net_socket_get_local_port(connected, net)
    IN  IF bound.rv # 0 THEN Ret(bound, -1)
        ELSE IF connected.rv # 0 THEN Ret(connected, -1)
        ELSE IF bind_conf.present /\ bind_conf.has_buffer
        THEN IF port.rv = 0 THEN Ret(port, 0) ELSE Ret(port, -1)
        ELSE Ret(connected, 0)

anjay_bind_and_connect_socket(ss, bind_conf, net) ==
    LET bound == bind_socket(ss, bind_conf, net)
        connected == avs_net_socket_connect(bound, net)
        port == avs_net_socket_get_local_port(connected, net)
    IN  IF bound.rv # 0 THEN Ret(bound, -1)
        ELSE IF connected.rv # 0 THEN Ret(connected, -1)
        ELSE IF bind_conf.present /\ bind_conf.has_buffer
        THEN IF port.rv = 0
             THEN Ret(port, 0)
             ELSE Ret([port EXCEPT !.buffer = <<>>], 0)
        ELSE Ret(connected, 0)

\* avs_net_socket_create(): on failure *out is NULL, or a socket the
\* failed creation left behind
avs_net_socket_create(ss, net) ==
    CASE net.create = "ok" ->
            Ret(Event([ss EXCEPT !.socket.created = TRUE,
                                 !.created = @ + 1],
                      <<"create", TRUE>>), 0)
      [] net.create = "partial" ->
            Ret(Event([ss EXCEPT !.socket.created = TRUE,
                                 !.created = @ + 1],
                      <<"create", FALSE>>), -1)
      [] OTHER -> Ret(Event(ss, <<"create", FALSE>>), -1)

\* avs_net_socket_cleanup(): destroys the socket, if any, and resets *out
avs_net_socket_cleanup(ss) ==
    IF ss.socket.created
    THEN Event([ss EXCEPT !.socket = NoSocket, !.destroyed = @ + 1],
               <<"cleanup">>)
    ELSE ss

\* a creation that returns on failure without the cleanup
anjay_create_connected_udp_socket_leak(ss, type, bind_conf, net) ==
    IF type \in {"AVS_NET_UDP_SOCKET", "AVS_NET_DTLS_SOCKET"}
    THEN LET created == avs_net_socket_create(ss, net)
             connected == anjay_bind_and_connect_socket(created, bind_conf, net)
         IN  IF created.rv # 0 THEN Ret(created, -ENOMEM)
             ELSE IF connected.rv # 0 THEN Ret(connected, -EPROTO)
             ELSE Ret(connected, 0)
    ELSE Ret(ss, -EPROTONOSUPPORT)

anjay_create_connected_udp_socket(ss, type, bind_conf, net) ==
    LET fail(x, result) ==
            LET r1 == IF x.socket.created THEN -net.errno ELSE result
                r2 == IF r1 = 0 THEN -EPROTO ELSE r1
            IN  Ret(avs_net_socket_cleanup(x), r2)
    IN  IF type \in {"AVS_NET_UDP_SOCKET", "AVS_NET_DTLS_SOCKET"}
        THEN LET created == avs_net_socket_create(ss, net)
                 connected == anjay_bind_and_connect_socket(created, bind_conf,
                                                            net)
             IN  IF created.rv # 0 THEN fail(created, -ENOMEM)
                 ELSE IF connected.rv # 0 THEN fail(connected, 0)
                 ELSE Ret(connected, 0)
        ELSE Ret(ss, -EPROTONOSUPPORT)

\* ---- the inputs the socket functions are tried with ----------------------
ProbeStaticPorts == {0, 5683}

ProbePortBuffers == {<<>>, uint_to_string(5683), uint_to_string(5684)}

ProbeBindConfs ==
    {[present |-> FALSE, family |-> "AVS_NET_AF_UNSPEC",
      static_port_preference |-> 0, has_buffer |-> FALSE]}
    \cup {[present |-> TRUE, family |-> f, static_port_preference |-> p,
           has_buffer |-> b] :
            f \in {"AVS_NET_AF_UNSPEC", "AVS_NET_AF_INET4", "AVS_NET_AF_INET6"},
            p \in ProbeStaticPorts, b \in BOOLEAN}

\* what the network stack does during one call: the ports already in use,
\* the ephemeral port it hands out, the failures and the errno it reports
ProbeNets ==
    [busy : SUBSET {5683, 5684}, ephemeral : {49152},
     ephemeral_fails : BOOLEAN, connect_fails : BOOLEAN,
     get_local_port_fails : BOOLEAN, create : {"ok", "partial", "failed"},
     errno : {0, 98}]

\* the networks in which socket creation succeeds
ProbeNetsCreated == {n \in ProbeNets : n.create = "ok" /\ n.errno = 0}

ProbeSocketTypes ==
    {"AVS_NET_UDP_SOCKET", "AVS_NET_DTLS_SOCKET", "AVS_NET_TCP_SOCKET"}

SocketProbeInit ==
    /\ servers = [s \in SSIDs |-> InactiveServer]
    /\ jobs = [j \in JobIds |-> NoJob]
    /\ now = 0
    /\ offline = FALSE
    /\ last = [op |-> "init", ssid |-> ANJAY_SSID_ANY, rv |-> 0, events |-> <<>>]
    /\ probe \in
        {[kind |-> "socket", pc |-> "input", bind_conf |-> c, buffer |-> b,
          type |-> "AVS_NET_UDP_SOCKET",
          net |-> CHOOSE n \in ProbeNetsCreated :
                     /\ n.busy = {} /\ ~n.ephemeral_fails /\ ~n.connect_fails
                     /\ ~n.get_local_port_fails,
          result |-> SocketStateOf(b)] :
            c \in ProbeBindConfs, b \in ProbePortBuffers}

\* bind_socket() on a socket just created
ProbeBindSocket ==
    /\ probe.pc = "input"
    /\ \E net \in ProbeNetsCreated :
          probe' = [probe EXCEPT
                       !.pc = "bind_socket", !.net = net,
                       !.result = bind_socket(
                                      avs_net_socket_create(
                                          SocketStateOf(probe.buffer), net),
                                      probe.bind_conf, net)]
    /\ ProbeFrame

\* _anjay_bind_and_connect_socket() on a socket just created
ProbeBindAndConnectSocket ==
    /\ probe.pc = "input"
    /\ \E net \in ProbeNetsCreated :
          probe' = [probe EXCEPT
                       !.pc = "_anjay_bind_and_connect_socket", !.net = net,
                       !.result = anjay_bind_and_connect_socket(
                                      avs_net_socket_create(
                                          SocketStateOf(probe.buffer), net),
                                      probe.bind_conf, net)]
    /\ ProbeFrame

\* _anjay_create_connected_udp_socket() with *out NULL
ProbeCreateConnectedUdpSocket ==
    /\ probe.pc = "input"
    /\ \E net \in ProbeNets, type \in ProbeSocketTypes :
          probe' = [probe EXCEPT
                       !.pc = "_anjay_create_connected_udp_socket",
                       !.net = net, !.type = type,
                       !.result = anjay_create_connected_udp_socket(
                                      SocketStateOf(probe.buffer), type,
                                      probe.bind_conf, net)]
    /\ ProbeFrame

SocketProbeNext ==
    \/ ProbeBindSocket
    \/ ProbeBindAndConnectSocket
    \/ ProbeCreateConnectedUdpSocket

SocketProbeSpec == SocketProbeInit /\ [][SocketProbeNext]_vars

\* ---- properties of the socket functions ----------------------------------
\* the bind calls made, in order: <<port, succeeded>>
BindCalls(events) ==
    LET idx == {i \in 1..Len(events) : events[i][1] = "bind"}
        nth[k \in 0..Len(events)] ==
            IF k = 0 THEN <<>>
            ELSE IF k \in idx
                 THEN Append(nth[k - 1], <<events[k][3], events[k][4]>>)
                 ELSE nth[k - 1]
    IN  nth[Len(events)]

\* a last known local port is recorded for the bind
LastPortRecorded ==
    /\ probe.bind_conf.present
    /\ probe.bind_conf.has_buffer
    /\ probe.buffer # <<>>

StaticPortConfigured ==
    probe.bind_conf.present /\ probe.bind_conf.static_port_preference # 0

StaticPortString == uint_to_string(probe.bind_conf.static_port_preference)

\* C32: bind_socket tries the last known local port first whenever one is
\* recorded; the statically preferred port is bound only if no port is
\* recorded or the bind to the recorded one failed, and then whenever one is
\* configured; otherwise the socket gets an ephemeral port; a failed bind to
\* the last known port alone does not make the function fail.
C32_Original ==
    probe.pc = "bind_socket" =>
        LET calls == BindCalls(probe.result.events)
            lastFailed == /\ LastPortRecorded
                          /\ Len(calls) >= 1
                          /\ calls[1] = <<probe.buffer, FALSE>>
            final == calls[Len(calls)]
        IN  /\ LastPortRecorded =>
                  /\ Len(calls) >= 1
                  /\ calls[1][1] = probe.buffer
                  /\ calls[1][2] => (Len(calls) = 1 /\ probe.result.rv = 0)
            /\ (~LastPortRecorded \/ lastFailed) /\ StaticPortConfigured =>
                  final[1] = StaticPortString
            /\ (~LastPortRecorded \/ lastFailed) /\ ~StaticPortConfigured =>
                  \A k \in 1..Len(calls) :
                      calls[k][1] # probe.buffer => calls[k][1] = <<>>
            /\ lastFailed /\ final[2] => probe.result.rv = 0

\* a static port is configured, another port is recorded as the last known
\* one and is free, and the socket was bound to the static port without a
\* bind to the recorded one
C32_Witness ==
    /\ probe.pc = "bind_socket"
    /\ LastPortRecorded
    /\ StaticPortConfigured
    /\ probe.buffer # StaticPortString
    /\ string_to_uint(probe.buffer) \notin probe.net.busy
    /\ BindCalls(probe.result.events) = <<<<StaticPortString, TRUE>>>>
    /\ probe.result.socket.local_port = probe.bind_conf.static_port_preference
    /\ probe.result.rv = 0

\* C33: _anjay_bind_and_connect_socket returns 0 exactly when the bind did
\* not fail and the connect succeeded, and -1 otherwise; after a success
\* with a port buffer, the buffer holds the local port of the connected
\* socket if the port could be read back, and is empty if it could not; a
\* failure leaves the buffer as it was.
C33_RecordedPortIsBoundPortOrEmpty ==
    probe.pc = "_anjay_bind_and_connect_socket" =>
        LET r == probe.result
            ev == EventSet(r.events)
            calls == BindCalls(r.events)
            bindFailed ==
                /\ Len(calls) >= 1
                /\ ~calls[Len(calls)][2]
                /\ \/ calls[Len(calls)][1] # probe.buffer
                   \/ StaticPortConfigured
                   \/ Len(calls) = 2
        IN  /\ r.rv \in {0, -1}
            /\ r.rv = 0 <=> <<"connect", TRUE>> \in ev
            /\ bindFailed => (r.rv = -1 /\ <<"connect", FALSE>> \notin ev)
            /\ <<"connect", FALSE>> \in ev => r.rv = -1
            /\ r.rv = -1 => r.buffer = probe.buffer
            /\ r.rv = 0 =>
                  /\ r.socket.connected
                  /\ r.socket.local_port # 0
                  /\ (Len(calls) >= 1 /\ calls[Len(calls)][2]) =>
                        r.socket.local_port =
                            IF calls[Len(calls)][1] = <<>>
                            THEN probe.net.ephemeral
                            ELSE string_to_uint(calls[Len(calls)][1])
                  /\ IF ~(probe.bind_conf.present /\ probe.bind_conf.has_buffer)
                     THEN r.buffer = probe.buffer
                     ELSE IF <<"get_local_port", TRUE>> \in ev
                     THEN /\ r.buffer = uint_to_string(r.socket.local_port)
                          /\ string_to_uint(r.buffer) = r.socket.local_port
                     ELSE /\ <<"get_local_port", FALSE>> \in ev
                          /\ r.buffer = <<>>

\* the socket was bound to a port other than the recorded one and connected,
\* and the buffer now holds the port it was bound to
C33_Witness ==
    /\ probe.pc = "_anjay_bind_and_connect_socket"
    /\ probe.result.rv = 0
    /\ LastPortRecorded
    /\ string_to_uint(probe.buffer) \in probe.net.busy
    /\ probe.result.buffer # probe.buffer
    /\ probe.result.buffer = uint_to_string(probe.net.ephemeral)
    /\ probe.result.socket.local_port = probe.net.ephemeral

\* C38: _anjay_create_connected_udp_socket either returns 0 with a created,
\* bound and connected socket in *out, or returns a negative value with *out
\* NULL and every socket it created destroyed; for a socket type other than
\* UDP and DTLS it returns -EPROTONOSUPPORT and creates nothing.
C38_SocketOrErrorNeverDangling ==
    probe.pc = "_anjay_create_connected_udp_socket" =>
        LET r == probe.result
        IN  /\ r.rv <= 0
            /\ r.rv = 0 =>
                  /\ probe.type \in {"AVS_NET_UDP_SOCKET", "AVS_NET_DTLS_SOCKET"}
                  /\ r.socket.created
                  /\ r.socket.connected
                  /\ r.socket.local_port # 0
                  /\ r.created = 1
                  /\ r.destroyed = 0
            /\ r.rv < 0 =>
                  /\ r.socket = NoSocket
                  /\ r.destroyed = r.created
            /\ probe.type \notin {"AVS_NET_UDP_SOCKET", "AVS_NET_DTLS_SOCKET"} =>
                  /\ r.rv = -EPROTONOSUPPORT
                  /\ r.events = <<>>
                  /\ r.created = 0
            /\ (probe.type \in {"AVS_NET_UDP_SOCKET", "AVS_NET_DTLS_SOCKET"}
                  /\ (probe.net.create # "ok" \/ probe.net.connect_fails)) =>
                  r.rv < 0

\* the socket was created and bound, the connect failed, and the socket was
\* destroyed before the error was returned
C38_Witness ==
    /\ probe.pc = "_anjay_create_connected_udp_socket"
    /\ <<"connect", FALSE>> \in EventSet(probe.result.events)
    /\ probe.result.created = 1
    /\ probe.result.destroyed = 1
    /\ probe.result.socket = NoSocket
    /\ probe.result.rv = -probe.net.errno
    /\ probe.result.rv < 0

\* ------------------------------------------------------------------------
\* Transactions on the Server object
\* ------------------------------------------------------------------------
\* The instance lists of server_repr_t are sequences here and <<>> is the
\* NULL list. repr = [instances, saved_instances, modified_since_persist,
\* saved_modified_since_persist, rv].
TransactionInstances == {GoodInstance(1), GoodInstance(2)}

\* _anjay_serv_clone_instances(): a copy of the list, NULL when the list is
\* empty or a copy cannot be allocated
anjay_serv_clone_instances(repr, alloc_fails) ==
    IF alloc_fails THEN <<>> ELSE repr.instances

anjay_serv_transaction_begin_impl(repr, alloc_fails) ==
    LET saved == anjay_serv_clone_instances(repr, alloc_fails)
        cloned == [repr EXCEPT !.saved_instances = saved]
    IN  IF saved = <<>> /\ repr.instances # <<>>
        THEN Ret(cloned, ANJAY_ERR_INTERNAL)
        ELSE Ret([cloned EXCEPT !.saved_modified_since_persist =
                                    repr.modified_since_persist], 0)

anjay_serv_transaction_commit_impl(repr) ==
    Ret([repr EXCEPT !.saved_instances = <<>>], 0)

\* a rollback that restores the instances but not the flag
anjay_serv_transaction_rollback_impl_keep_flag(repr) ==
    Ret([repr EXCEPT !.instances = repr.saved_instances,
                     !.saved_instances = <<>>], 0)

anjay_serv_transaction_rollback_impl(repr) ==
    Ret([repr EXCEPT !.modified_since_persist =
                         repr.saved_modified_since_persist,
                     !.instances = repr.saved_instances,
                     !.saved_instances = <<>>], 0)

\* The Server object as the data model drives it: op is the handler that ran
\* last, in_transaction tells whether a transaction was begun and not yet
\* ended, at_begin notes the instances and the flag at that begin, and
\* changed whether the object was modified since.
TransactionProbeInit ==
    /\ servers = [s \in SSIDs |-> InactiveServer]
    /\ jobs = [j \in JobIds |-> NoJob]
    /\ now = 0
    /\ offline = FALSE
    /\ last = [op |-> "init", ssid |-> ANJAY_SSID_ANY, rv |-> 0, events |-> <<>>]
    /\ probe \in
        {[kind |-> "transaction", op |-> "init", rv |-> 0,
          instances |-> l, saved_instances |-> <<>>,
          modified_since_persist |-> m,
          saved_modified_since_persist |-> FALSE,
          in_transaction |-> FALSE,
          at_begin |-> [instances |-> <<>>, modified_since_persist |-> FALSE],
          changed |-> FALSE] :
            l \in {<<>>} \cup {<<it>> : it \in TransactionInstances},
            m \in BOOLEAN}

\* the handlers that create, remove and write instances: each leaves the
\* object marked as modified
ModifyInstances ==
    /\ \/ \E it \in TransactionInstances :
            /\ Len(probe.instances) < MaxInstances
            /\ probe' = [probe EXCEPT !.op = "modify", !.rv = 0,
                                      !.instances = Append(@, it),
                                      !.modified_since_persist = TRUE,
                                      !.changed = TRUE]
       \/ \E i \in 1..Len(probe.instances) :
            probe' = [probe EXCEPT
                         !.op = "modify", !.rv = 0,
                         !.instances = SubSeq(@, 1, i - 1)
                                          \o SubSeq(@, i + 1, Len(@)),
                         !.modified_since_persist = TRUE,
                         !.changed = TRUE]
    /\ ProbeFrame

\* transaction_begin of the Server object; the data model begins a
\* transaction only when none is open
TransactionBegin ==
    /\ ~probe.in_transaction
    /\ \E alloc_fails \in BOOLEAN :
          LET r == anjay_serv_transaction_begin_impl(probe, alloc_fails)
          IN  probe' = [r EXCEPT
                           !.op = "begin",
                           !.in_transaction = (r.rv = 0),
                           !.at_begin =
                               IF r.rv = 0
                               THEN [instances |-> probe.instances,
                                     modified_since_persist |->
                                         probe.modified_since_persist]
                               ELSE @,
                           !.changed = FALSE]
    /\ ProbeFrame

TransactionCommit ==
    /\ probe.in_transaction
    /\ probe' = [anjay_serv_transaction_commit_impl(probe) EXCEPT
                    !.op = "commit", !.in_transaction = FALSE]
    /\ ProbeFrame

TransactionRollback ==
    /\ probe.in_transaction
    /\ probe' = [anjay_serv_transaction_rollback_impl(probe) EXCEPT
                    !.op = "rollback", !.in_transaction = FALSE]
    /\ ProbeFrame

TransactionProbeNext ==
    \/ ModifyInstances
    \/ TransactionBegin
    \/ TransactionCommit
    \/ TransactionRollback

TransactionProbeSpec == TransactionProbeInit /\ [][TransactionProbeNext]_vars

\* C37: a rollback restores the instances and modified_since_persist to
\* their values at the begin of the transaction, whatever was modified in
\* between; a commit keeps the current instances and flag; after either no
\* saved snapshot remains, so that begin finds saved_instances NULL, as it
\* asserts, whenever transactions are begun and ended in turn.
C37_TransactionRestoresOrKeeps ==
    [][/\ probe'.op = "rollback" =>
            /\ probe'.rv = 0
            /\ probe'.instances = probe.at_begin.instances
            /\ probe'.modified_since_persist =
                   probe.at_begin.modified_since_persist
            /\ probe'.saved_instances = <<>>
       /\ probe'.op = "commit" =>
            /\ probe'.rv = 0
            /\ probe'.instances = probe.instances
            /\ probe'.modified_since_persist = probe.modified_since_persist
            /\ probe'.saved_instances = <<>>
       /\ probe'.op = "begin" =>
            /\ probe.saved_instances = <<>>
            /\ probe'.instances = probe.instances
            /\ probe'.modified_since_persist = probe.modified_since_persist
            /\ probe'.rv = 0 => probe'.saved_instances = probe.instances
       /\ ~probe'.in_transaction => probe'.saved_instances = <<>>]_vars

\* a transaction begun on an unmodified object with an instance was rolled
\* back after modifications: the instance is back and the flag is clear
C37_Witness ==
    /\ probe.op = "rollback"
    /\ probe.changed
    /\ probe.instances # <<>>
    /\ probe.instances = probe.at_begin.instances
    /\ ~probe.modified_since_persist
    /\ probe.saved_instances = <<>>

====
